---- MODULE Spec2Model ----
(***************************************************************************)
(* VGA text streaming driver (vga_textstream.cpp / vga_textstream.h).      *)
(*                                                                         *)
(* The driver has two executors that share one VGATextStream object: the   *)
(* reader worker (InputThreadFunc) and the vsync context (OnVSync).  Each  *)
(* is modelled as a program counter walking through the code, one action   *)
(* per code segment between two accesses to shared state.  Bytes are the   *)
(* integers 0..255, byte strings are sequences of them.                    *)
(***************************************************************************)
EXTENDS Integers, Sequences, FiniteSets, TLC

(***************************************************************************)
(* Protocol constants (vga_textstream.h)                                   *)
(***************************************************************************)
STREAM_PROTOCOL_VERSION == 1
TEXTSTREAM_MAX_COLS == 132
TEXTSTREAM_MAX_ROWS == 60

\* enum class StreamChannel
CH_CONTROL == 0
CH_TEXT_OUT == 1
CH_KEYBOARD_IN == 2
CH_MOUSE_IN == 3

\* enum class ControlMsg
MSG_HELLO == 1
MSG_GOODBYE == 2
MSG_MODE_TEXT == 16
MSG_MODE_UNSUPPORTED == 18
MSG_REFRESH == 32
MSG_RESIZE == 33

\* enum class StreamCap
CAP_TEXT_OUTPUT == 1
CAP_KEYBOARD_INPUT == 2
CAP_MOUSE_INPUT == 3
CAP_GRAPHICS_PNG == 16
CAP_GRAPHICS_JPEG == 17
CAP_GRAPHICS_H264 == 18
CAP_AUDIO_PCM == 32
CAP_AUDIO_OPUS == 33

\* SendMessage refuses any payload longer than this (0xFFFFFF)
MAX_FRAME_LEN == 16777215

\* the periodic full refresh of OnVSync: every 120 gated ticks
REFRESH_PERIOD == 120

\* the sentinel of ansi_attr_ ("unknown", 0xFF) and the default attribute
ATTR_UNKNOWN == 255
ATTR_DEFAULT == 7

(***************************************************************************)
(* Fixed tables (vga_textstream.cpp), 0-based in the code, 1-based here    *)
(***************************************************************************)
cp437_to_unicode ==
    <<
       0, 9786, 9787, 9829, 9830, 9827, 9824, 8226,
       9688, 9675, 9689, 9794, 9792, 9834, 9835, 9788,
       9658, 9668, 8597, 8252, 182, 167, 9644, 8616,
       8593, 8595, 8594, 8592, 8735, 8596, 9650, 9660,
       32, 33, 34, 35, 36, 37, 38, 39,
       40, 41, 42, 43, 44, 45, 46, 47,
       48, 49, 50, 51, 52, 53, 54, 55,
       56, 57, 58, 59, 60, 61, 62, 63,
       64, 65, 66, 67, 68, 69, 70, 71,
       72, 73, 74, 75, 76, 77, 78, 79,
       80, 81, 82, 83, 84, 85, 86, 87,
       88, 89, 90, 91, 92, 93, 94, 95,
       96, 97, 98, 99, 100, 101, 102, 103,
       104, 105, 106, 107, 108, 109, 110, 111,
       112, 113, 114, 115, 116, 117, 118, 119,
       120, 121, 122, 123, 124, 125, 126, 8962,
       199, 252, 233, 226, 228, 224, 229, 231,
       234, 235, 232, 239, 238, 236, 196, 197,
       201, 230, 198, 244, 246, 242, 251, 249,
       255, 214, 220, 162, 163, 165, 8359, 402,
       225, 237, 243, 250, 241, 209, 170, 186,
       191, 8976, 172, 189, 188, 161, 171, 187,
       9617, 9618, 9619, 9474, 9508, 9569, 9570, 9558,
       9557, 9571, 9553, 9559, 9565, 9564, 9563, 9488,
       9492, 9524, 9516, 9500, 9472, 9532, 9566, 9567,
       9562, 9556, 9577, 9574, 9568, 9552, 9580, 9575,
       9576, 9572, 9573, 9561, 9560, 9554, 9555, 9579,
       9578, 9496, 9484, 9608, 9604, 9612, 9616, 9600,
       945, 223, 915, 960, 931, 963, 181, 964,
       934, 920, 937, 948, 8734, 966, 949, 8745,
       8801, 177, 8805, 8804, 8992, 8993, 247, 8776,
       176, 8729, 183, 8730, 8319, 178, 9632, 160
    >>

ascii_scancode ==
    <<
       0, 30, 48, 46, 32, 18, 33, 34, 14, 15, 28, 37, 38, 28, 49, 24,
       25, 16, 19, 31, 20, 22, 47, 17, 45, 21, 44, 1, 43, 27, 7, 12,
       57, 2, 40, 4, 5, 6, 8, 40, 10, 11, 9, 13, 51, 12, 52, 53,
       11, 2, 3, 4, 5, 6, 7, 8, 9, 10, 39, 39, 51, 13, 52, 53,
       3, 30, 48, 46, 32, 18, 33, 34, 35, 23, 36, 37, 38, 50, 49, 24,
       25, 16, 19, 31, 20, 22, 47, 17, 45, 21, 44, 26, 43, 27, 7, 12,
       41, 30, 48, 46, 32, 18, 33, 34, 35, 23, 36, 37, 38, 50, 49, 24,
       25, 16, 19, 31, 20, 22, 47, 17, 45, 21, 44, 26, 43, 27, 41, 14
    >>

vga_fg == <<30, 34, 32, 36, 31, 35, 33, 37, 90, 94, 92, 96, 91, 95, 93, 97>>

vga_bg == <<40, 44, 42, 46, 41, 45, 43, 47>>

(***************************************************************************)
(* Byte strings                                                            *)
(***************************************************************************)
Min(a, b) == IF a < b THEN a ELSE b

Take(s, n) == SubSeq(s, 1, Min(n, Len(s)))

Drop(s, n) == SubSeq(s, Min(n, Len(s)) + 1, Len(s))

\* snprintf("%d") of a non-negative integer
RECURSIVE DecStr(_)
DecStr(n) == IF n < 10 THEN <<48 + n>> ELSE DecStr(n \div 10) \o <<48 + (n % 10)>>

(***************************************************************************)
(* Cells, cursors, grids                                                   *)
(***************************************************************************)
TextCell(ch, at) == [character |-> ch, attribute |-> at]

TextCursor(r, c, v) == [row |-> r, col |-> c, visible |-> v]

\* memset(current_, 0, ...): a grid is the set of cells written so far,
\* every other cell of the 60 x 132 array still holds zeroes
ZeroGrid == [p \in {} |-> TextCell(0, 0)]

CellAt(g, r, c) == IF <<r, c>> \in DOMAIN g THEN g[<<r, c>>] ELSE TextCell(0, 0)

Extent(rows, cols) == (0 .. rows - 1) \X (0 .. cols - 1)

(***************************************************************************)
(* ANSI emitters.  e is the render state the emitters write:               *)
(*   e.buf = text_buffer_, e.attr = ansi_attr_, e.row/e.col = ansi_row_/   *)
(*   ansi_col_                                                             *)
(***************************************************************************)
Emitter(buf, attr, row, col) == [buf |-> buf, attr |-> attr, row |-> row, col |-> col]

EmitMoveCursor(e, row, col) ==
    [e EXCEPT !.buf = @ \o <<27, 91>> \o DecStr(row + 1) \o <<59>> \o DecStr(col + 1) \o <<72>>,
              !.row = row, !.col = col]

EmitSetAttribute(e, attr) ==
    LET fg == vga_fg[(attr % 16) + 1]
        bg == vga_bg[((attr \div 16) % 8) + 1]
        blink == (attr \div 128) % 2 = 1
        sgr == <<27, 91, 48, 59>> \o DecStr(fg) \o <<59>> \o DecStr(bg)
                  \o (IF blink THEN <<59, 53, 109>> ELSE <<109>>)
    IN  [e EXCEPT !.buf = @ \o sgr, !.attr = attr]

\* the UTF-8 encoding of a BMP code point, as EmitCharacter computes it
Utf8(u) ==
    IF u < 128 THEN <<u>>
    ELSE IF u < 2048 THEN <<192 + (u \div 64), 128 + (u % 64)>>
    ELSE <<224 + (u \div 4096), 128 + ((u \div 64) % 64), 128 + (u % 64)>>

EmitCharacter(e, ch, cols) ==
    LET c1 == e.col + 1
    IN  [e EXCEPT !.buf = @ \o Utf8(cp437_to_unicode[ch + 1]),
                  !.col = IF c1 >= cols THEN 0 ELSE c1,
                  !.row = IF c1 >= cols THEN @ + 1 ELSE @]

EmitClearScreen(e) ==
    [e EXCEPT !.buf = @ \o <<27, 91, 63, 50, 53, 108>> \o <<27, 91, 50, 74, 27, 91, 72>>,
              !.row = 0, !.col = 0]

EmitCursorVisibility(e, visible) ==
    [e EXCEPT !.buf = @ \o <<27, 91, 63, 50, 53, IF visible THEN 104 ELSE 108>>]

(***************************************************************************)
(* GenerateTextOutput                                                      *)
(***************************************************************************)
\* "last non-space character OR last character with non-default background"
RECURSIVE LastCol(_, _, _)
LastCol(cur, row, col) ==
    IF col >= 0 /\ CellAt(cur, row, col).character = 32
               /\ (CellAt(cur, row, col).attribute \div 16) % 8 = 0
    THEN LastCol(cur, row, col - 1)
    ELSE col

\* the column loop of the full redraw emitting an SGR before every cell
RECURSIVE FullRowCellsAlwaysSgr(_, _, _, _, _, _)
FullRowCellsAlwaysSgr(e, cur, row, col, last_col, cols) ==
    IF col > last_col THEN e
    ELSE LET curr == CellAt(cur, row, col)
             e1 == EmitSetAttribute(e, curr.attribute)
         IN  FullRowCellsAlwaysSgr(EmitCharacter(e1, curr.character, cols), cur, row, col + 1,
                                   last_col, cols)

\* for (col = 0; col <= last_col; col++) of the full redraw
RECURSIVE FullRowCells(_, _, _, _, _, _)
FullRowCells(e, cur, row, col, last_col, cols) ==
    IF col > last_col THEN e
    ELSE LET curr == CellAt(cur, row, col)
             e1 == IF curr.attribute # e.attr THEN EmitSetAttribute(e, curr.attribute) ELSE e
         IN  FullRowCells(EmitCharacter(e1, curr.character, cols), cur, row, col + 1, last_col, cols)

\* the body of for (row = 0; row < rows_; row++) of the full redraw
FullRow(e, cur, row, cols) ==
    LET e1 == IF row > 0
              THEN LET r == IF e.attr # ATTR_DEFAULT THEN EmitSetAttribute(e, ATTR_DEFAULT) ELSE e
                   IN  [r EXCEPT !.buf = @ \o <<13, 10>>]
              ELSE e
        last_col == LastCol(cur, row, cols - 1)
        e2 == FullRowCells(e1, cur, row, 0, last_col, cols)
    IN  IF e2.attr # ATTR_DEFAULT /\ last_col < cols - 1
        THEN EmitSetAttribute(e2, ATTR_DEFAULT) ELSE e2

\* for (row = 0; row < rows_; row++) of the full redraw.  The state after a
\* row is bound to y before the next row is rendered from it.
RECURSIVE FullRows(_, _, _, _, _)
FullRows(e, cur, row, rows, cols) ==
    IF row >= rows THEN e
    ELSE CHOOSE r \in {FullRows(y, cur, row + 1, rows, cols) :
                          y \in {FullRow(e, cur, row, cols)}} : TRUE

FullRedraw(e, cur, rows, cols) ==
    LET e1 == EmitSetAttribute(EmitClearScreen(e), ATTR_DEFAULT)
        e2 == FullRows(e1, cur, 0, rows, cols)
    IN  [e2 EXCEPT !.row = rows - 1, !.col = 0]

\* the cell test of the differential update: curr != prev
CellChanged(curr, prev) ==
    curr.character # prev.character \/ curr.attribute # prev.attribute

\* the inner loop of the differential update with a write head that does
\* not wrap to the next row
RECURSIVE DiffRowCellsNoWrap(_, _, _, _, _, _)
DiffRowCellsNoWrap(d, cur, prev, row, col, cols) ==
    IF col >= cols THEN d
    ELSE LET curr == CellAt(cur, row, col)
         IN  IF CellChanged(curr, CellAt(prev, row, col))
             THEN LET e1 == IF row # d.wrow \/ col # d.wcol
                            THEN EmitMoveCursor(d.e, row, col) ELSE d.e
                      e2 == IF curr.attribute # e1.attr
                            THEN EmitSetAttribute(e1, curr.attribute) ELSE e1
                      e3 == EmitCharacter(e2, curr.character, cols)
                      d1 == [e |-> e3, wrow |-> row, wcol |-> col + 1]
                  IN  DiffRowCellsNoWrap(d1, cur, prev, row, col + 1, cols)
             ELSE DiffRowCellsNoWrap(d, cur, prev, row, col + 1, cols)

\* the inner loop of the differential update over the columns of one row;
\* d.e is the render state, (d.wrow, d.wcol) the write head
RECURSIVE DiffRowCells(_, _, _, _, _, _)
DiffRowCells(d, cur, prev, row, col, cols) ==
    IF col >= cols THEN d
    ELSE LET curr == CellAt(cur, row, col)
         IN  IF CellChanged(curr, CellAt(prev, row, col))
             THEN LET e1 == IF row # d.wrow \/ col # d.wcol
                            THEN EmitMoveCursor(d.e, row, col) ELSE d.e
                      e2 == IF curr.attribute # e1.attr
                            THEN EmitSetAttribute(e1, curr.attribute) ELSE e1
                      e3 == EmitCharacter(e2, curr.character, cols)
                      wrap == col + 1 >= cols
                      d1 == [e |-> e3, wrow |-> IF wrap THEN row + 1 ELSE row,
                             wcol |-> IF wrap THEN 0 ELSE col + 1]
                  IN  DiffRowCells(d1, cur, prev, row, col + 1, cols)
             ELSE DiffRowCells(d, cur, prev, row, col + 1, cols)

\* the outer loop of the differential update over the rows; the state after
\* a row is bound to y before the next row is rendered from it
RECURSIVE DiffRows(_, _, _, _, _, _)
DiffRows(d, cur, prev, row, rows, cols) ==
    IF row >= rows THEN d
    ELSE CHOOSE r \in {DiffRows(y, cur, prev, row + 1, rows, cols) :
                          y \in {DiffRowCells(d, cur, prev, row, 0, cols)}} : TRUE

DiffUpdate(e, cur, prev, rows, cols) ==
    DiffRows([e |-> e, wrow |-> -1, wcol |-> -1], cur, prev, 0, rows, cols).e

\* TextCursor::operator!=
CursorDiffers(a, b) == a.row # b.row \/ a.col # b.col \/ a.visible # b.visible

\* CursorHandling without the test cursor_ != prev_cursor_
CursorHandlingAlways(e, cur, prev) ==
    LET e1 == IF cur.visible THEN EmitMoveCursor(e, cur.row, cur.col) ELSE e
    IN  IF cur.visible # prev.visible THEN EmitCursorVisibility(e1, cur.visible) ELSE e1

\* "Cursor handling - position first, then show/hide"
CursorHandling(e, cur, prev) ==
    IF CursorDiffers(cur, prev)
    THEN LET e1 == IF cur.visible THEN EmitMoveCursor(e, cur.row, cur.col) ELSE e
         IN  IF cur.visible # prev.visible THEN EmitCursorVisibility(e1, cur.visible) ELSE e1
    ELSE e

\* the body of GenerateTextOutput between the clear of force_redraw_ and
\* FlushTextOutput: text_buffer_.clear(), the cells, the cursor
RenderPass(full, cur, prev, rows, cols, cursor, prev_cursor, attr, arow, acol) ==
    LET e0 == Emitter(<< >>, attr, arow, acol)
        e1 == IF full THEN FullRedraw(e0, cur, rows, cols)
                      ELSE DiffUpdate(e0, cur, prev, rows, cols)
    IN  CursorHandling(e1, cursor, prev_cursor)

(***************************************************************************)
(* Protocol framing                                                        *)
(***************************************************************************)
\* a header whose length bytes are in little-endian order
FrameHeaderLittleEndian(channel, len) ==
    <<channel % 256, len % 256, (len \div 256) % 256, (len \div 65536) % 256>>

\* the 4-byte header SendMessage builds: channel, 24-bit big-endian length
FrameHeader(channel, len) ==
    <<channel % 256, (len \div 65536) % 256, (len \div 256) % 256, len % 256>>

\* the length ReadMessage decodes from a header
HeaderLen(header) == header[2] * 65536 + header[3] * 256 + header[4]

\* SendControl: the message type byte, then the data
ControlPayload(msg, data) == <<msg>> \o data

\* SendHello: version (2) + cap count (1) + caps (N)
HelloPayload ==
    LET caps == <<CAP_TEXT_OUTPUT, CAP_KEYBOARD_INPUT, CAP_MOUSE_INPUT>>
    IN  ControlPayload(MSG_HELLO,
            <<(STREAM_PROTOCOL_VERSION \div 256) % 256, STREAM_PROTOCOL_VERSION % 256,
              Len(caps)>> \o caps)

\* The size test that opens SendMessage (the descriptor test is in SendCheck)
FrameTooLong(len) == len > MAX_FRAME_LEN

\* a lock that never makes a caller wait
CanLockAlways(owner) == TRUE

\* std::lock_guard<std::mutex> lock(send_mutex_): may proceed only when free
CanLock(owner) == owner = "none"

\* ReadMessage on a non-blocking descriptor whose unread bytes are q.  read()
\* hands over what is there, at most what was asked; with nothing there it
\* fails (EAGAIN) or reports end of stream.  rest is what stays unread.
ReadMessage(q) ==
    IF Len(q) < 4
    THEN [ok |-> FALSE, channel |-> 0, payload |-> << >>, rest |-> << >>]
    ELSE LET len == HeaderLen(Take(q, 4))
             body == Drop(q, 4)
         IN  IF Len(body) >= len
             THEN [ok |-> TRUE, channel |-> q[1], payload |-> Take(body, len),
                   rest |-> Drop(body, len)]
             ELSE [ok |-> FALSE, channel |-> q[1], payload |-> body, rest |-> << >>]

(***************************************************************************)
(* Session                                                                 *)
(***************************************************************************)
\* for (i = 0; i < cap_count && (3 + i) < payload.size(); i++): the
\* capability bytes HandleHello looks at (payload is 1-based here)
HelloCaps(payload) ==
    LET n == Min(payload[3], Len(payload) - 3)
    IN  {payload[3 + i] : i \in 1 .. n}

HelloWantsText(payload) == CAP_TEXT_OUTPUT \in HelloCaps(payload)

\* the graphics test without GRAPHICS_H264
HelloWantsGraphicsNoH264(payload) ==
    HelloCaps(payload) \cap {CAP_GRAPHICS_PNG, CAP_GRAPHICS_JPEG} # {}

HelloWantsGraphics(payload) ==
    HelloCaps(payload) \cap {CAP_GRAPHICS_PNG, CAP_GRAPHICS_JPEG, CAP_GRAPHICS_H264} # {}

HelloWantsAudio(payload) ==
    HelloCaps(payload) \cap {CAP_AUDIO_PCM, CAP_AUDIO_OPUS} # {}

IsTextMode(mode) == mode \in {"M_TEXT", "M_HERC_TEXT", "M_TANDY_TEXT"}

IsGraphicsMode(mode) ==
    mode \in {"M_CGA2", "M_CGA4", "M_CGA16", "M_EGA", "M_VGA", "M_LIN4", "M_LIN8",
              "M_LIN15", "M_LIN16", "M_LIN24", "M_LIN32"}

\* the data of MODE_TEXT: cols (u16 BE), rows (u16 BE)
ModeTextData(cols, rows) ==
    <<(cols \div 256) % 256, cols % 256, (rows \div 256) % 256, rows % 256>>

\* ModeNotification without its graphics branch
ModeNotificationTextOnly(mode, cols, rows) ==
    IF IsTextMode(mode) THEN ControlPayload(MSG_MODE_TEXT, ModeTextData(cols, rows))
    ELSE << >>

\* What SendModeNotification hands to SendControl once handshake_done_ was
\* seen true: a control payload, or << >> when it sends nothing
ModeNotification(mode, cols, rows) ==
    IF IsTextMode(mode) THEN ControlPayload(MSG_MODE_TEXT, ModeTextData(cols, rows))
    ELSE IF IsGraphicsMode(mode) THEN ControlPayload(MSG_MODE_UNSUPPORTED, << >>)
    ELSE << >>

(***************************************************************************)
(* Text snapshot                                                           *)
(***************************************************************************)
\* cols_ of SnapshotTextBuffer
SnapshotCols(offset) ==
    LET c == IF offset > 0 THEN offset * 2 ELSE 80
    IN  IF c > TEXTSTREAM_MAX_COLS THEN TEXTSTREAM_MAX_COLS ELSE c

\* a row count without the upper clamp
SnapshotRowsNoMax(maximum_scan_line, vertical_display_end) ==
    LET max_sl == maximum_scan_line % 32
        r == IF max_sl > 0 THEN (vertical_display_end + 1) \div (max_sl + 1) ELSE 25
    IN  IF r < 24 THEN 25 ELSE r

\* rows_ of SnapshotTextBuffer
SnapshotRows(maximum_scan_line, vertical_display_end) ==
    LET max_sl == maximum_scan_line % 32
        r == IF max_sl > 0 THEN (vertical_display_end + 1) \div (max_sl + 1) ELSE 25
        r1 == IF r > TEXTSTREAM_MAX_ROWS THEN TEXTSTREAM_MAX_ROWS ELSE r
    IN  IF r1 < 24 THEN 25 ELSE r1

\* mem_readb at 0xB8000 + off.  m holds the bytes the guest has written; the
\* rest of the text plane is as the video BIOS cleared it (space, 0x07)
mem_readb(m, off) ==
    IF off \in DOMAIN m THEN m[off] ELSE IF off % 2 = 0 THEN 32 ELSE ATTR_DEFAULT

\* the cell loop of SnapshotTextBuffer: the cells inside the extent are
\* read from the text plane, the others keep what they held
SnapshotCells(cur, m, start, rows, cols) ==
    [p \in DOMAIN cur \cup Extent(rows, cols) |->
        IF p \in Extent(rows, cols)
        THEN LET off == start * 2 + (p[1] * cols + p[2]) * 2
             IN  TextCell(mem_readb(m, off), mem_readb(m, off + 1))
        ELSE cur[p]]

\* SnapshotCursor; row and col are stored as uint16_t
SnapshotCursor(cursor_location, cursor_start, cols) ==
    TextCursor(IF cols > 0 THEN (cursor_location \div cols) % 65536 ELSE 0,
               IF cols > 0 THEN (cursor_location % cols) % 65536 ELSE 0,
               (cursor_start \div 32) % 2 = 0)

(***************************************************************************)
(* Keyboard input parsing.  k = [state, params, keys]: input_state_,       *)
(* csi_params_ and the keycodes handed to BIOS_AddKeyToBuffer so far       *)
(***************************************************************************)
\* an injector that never puts the ASCII byte into the keycode
InjectKeyScancodeOnly(k, scancode, ascii, extended) ==
    [k EXCEPT !.keys = Append(@, scancode * 256)]

\* VGATextStream::InjectKey
InjectKey(k, scancode, ascii, extended) ==
    [k EXCEPT !.keys = Append(@, IF extended THEN scancode * 256
                                            ELSE scancode * 256 + ascii)]

\* atoi on the parameter bytes: the leading decimal digits
RECURSIVE AtoiFrom(_, _, _)
AtoiFrom(s, i, acc) ==
    IF i > Len(s) \/ s[i] < 48 \/ s[i] > 57 THEN acc
    ELSE AtoiFrom(s, i + 1, acc * 10 + (s[i] - 48))

Atoi(s) == AtoiFrom(s, 1, 0)

\* the keys CSI and SS3 share: final byte -> scancode, 0 for none
ArrowScancode(byte) ==
    CASE byte = 65 -> 72  [] byte = 66 -> 80  [] byte = 67 -> 77  [] byte = 68 -> 75
      [] OTHER -> 0

\* a parameter switch that numbers F6..F10 from 16, without the gap
TildeScancodeNoGap(param) ==
    CASE param = 1 -> 71   [] param = 2 -> 82   [] param = 3 -> 83   [] param = 4 -> 79
      [] param = 5 -> 73   [] param = 6 -> 81
      [] param = 11 -> 59  [] param = 12 -> 60  [] param = 13 -> 61  [] param = 14 -> 62
      [] param = 15 -> 63  [] param = 16 -> 64  [] param = 17 -> 65  [] param = 18 -> 66
      [] param = 19 -> 67  [] param = 20 -> 68  [] param = 23 -> 133 [] param = 24 -> 134
      [] OTHER -> 0

\* the switch on the numeric parameter of CSI ... ~
TildeScancode(param) ==
    CASE param = 1 -> 71   [] param = 2 -> 82   [] param = 3 -> 83   [] param = 4 -> 79
      [] param = 5 -> 73   [] param = 6 -> 81
      [] param = 11 -> 59  [] param = 12 -> 60  [] param = 13 -> 61  [] param = 14 -> 62
      [] param = 15 -> 63  [] param = 17 -> 64  [] param = 18 -> 65  [] param = 19 -> 66
      [] param = 20 -> 67  [] param = 21 -> 68  [] param = 23 -> 133 [] param = 24 -> 134
      [] OTHER -> 0

ProcessInputByte(k, byte) ==
    CASE k.state = "NORMAL" ->
            IF byte = 27 THEN [k EXCEPT !.state = "ESC"]
            ELSE IF byte = 127 THEN InjectKey(k, 14, 8, FALSE)
            ELSE IF byte < 32 THEN
                IF byte = 13 THEN InjectKey(k, 28, 13, FALSE)
                ELSE IF byte = 9 THEN InjectKey(k, 15, 9, FALSE)
                ELSE IF byte = 8 THEN InjectKey(k, 14, 8, FALSE)
                ELSE IF byte >= 1 /\ byte <= 26
                     THEN InjectKey(k, ascii_scancode[(97 + byte - 1) + 1], byte, FALSE)
                     ELSE k
            ELSE IF byte < 128 THEN InjectKey(k, ascii_scancode[byte + 1], byte, FALSE)
            ELSE k
      [] k.state = "ESC" ->
            IF byte = 91 THEN [k EXCEPT !.state = "CSI", !.params = << >>]
            ELSE IF byte = 79 THEN [k EXCEPT !.state = "SS3"]
            ELSE LET k1 == IF byte >= 97 /\ byte <= 122
                           THEN [k EXCEPT !.keys = Append(@, ascii_scancode[byte + 1] * 256)]
                           ELSE InjectKey(k, 1, 27, FALSE)
                 IN  [k1 EXCEPT !.state = "NORMAL"]
      [] k.state = "CSI" ->
            IF byte >= 48 /\ byte <= 63 THEN [k EXCEPT !.params = Append(@, byte)]
            ELSE IF byte >= 64 /\ byte <= 126 THEN
                LET sc == IF byte \in {65, 66, 67, 68} THEN ArrowScancode(byte)
                          ELSE IF byte = 72 THEN 71
                          ELSE IF byte = 70 THEN 79
                          ELSE IF byte = 126
                               THEN TildeScancode(IF k.params = << >> THEN 0 ELSE Atoi(k.params))
                               ELSE 0
                    \* extended = true for all but the function keys F1..F12
                    ext == byte # 126 \/ Atoi(k.params) <= 6
                    k1 == IF sc = 0 THEN k ELSE InjectKey(k, sc, 0, ext)
                IN  [k1 EXCEPT !.params = << >>, !.state = "NORMAL"]
            ELSE [k EXCEPT !.state = "NORMAL"]
      [] OTHER ->
            LET sc == IF byte \in {65, 66, 67, 68} THEN ArrowScancode(byte)
                      ELSE IF byte \in {80, 81, 82, 83} THEN 59 + (byte - 80)
                      ELSE 0
                k1 == IF sc = 0 THEN k ELSE InjectKey(k, sc, 0, byte \in {65, 66, 67, 68})
            IN  [k1 EXCEPT !.state = "NORMAL"]

\* HandleKeyboardInput: for (i = 0; i < len; i++) ProcessInputByte(data[i])
RECURSIVE HandleKeyboardInput(_, _)
HandleKeyboardInput(k, data) ==
    IF data = << >> THEN k
    ELSE HandleKeyboardInput(ProcessInputByte(k, Head(data)), Tail(data))

(***************************************************************************)
(* Bounds of the model                                                     *)
(***************************************************************************)
\* connections the listener accepts in one run
MaxConn == 2
\* connections accepted in a run of the sequential specification
MaxSeqConn == 1
\* vsync ticks that pass the gate of OnVSync in one run
MaxTicks == 2
\* frames one client sends on its connection
MaxClientFrames == 2
\* bytes of the text plane the guest writes to (from 0xB8000 on)
MaxVmem == 2
\* changes the guest makes to the display in one run
MaxGuestSteps == 2

Conns == 1 .. MaxConn

\* the two executors: the vsync context and the reader worker
Threads == {"vs", "rd"}

VARIABLES
    \* ---- VGATextStream ----
    client_fd_, handshake_done_, mode_notified_, enabled_, force_redraw_,
    client_wants_text_, client_wants_graphics_, client_wants_audio_,
    vsync_count_, last_mode_,
    cols_, rows_, prev_cols_, prev_rows_,
    current_, previous_, cursor_, prev_cursor_,
    ansi_attr_, ansi_row_, ansi_col_, text_buffer_,
    input_state_, csi_params_, send_mutex_,
    \* ---- locals of the two executors ----
    pc,         \* where each executor is in its code
    sched,      \* how the two executors are scheduled: "turns", "free", "handover"
    ret,        \* where SendMessage returns to
    mret,       \* where SendModeNotification returns to
    sarg,       \* the arguments of SendMessage: channel, data, len (and the frame's number)
    full,       \* bool full of GenerateTextOutput
    rmsg,       \* channel and payload of InputThreadFunc
    \* ---- the emulator ----
    vga_mode, crtc, display_start, vmem, keybuf,
    gsteps,     \* changes the guest has made to the display
    \* ---- the sockets ----
    open_fds,   \* the client descriptors that are open (one per connection)
    backlog,    \* clients waiting in the listener's queue
    nconn,      \* connections accepted so far
    wire,       \* per connection, what write() has put on it, write by write
    inq,        \* per connection, the bytes the client sent that are unread
    peer_closed,\* per connection, whether the client has closed it
    csent,      \* per connection, the frames its client has sent
    \* ---- history ----
    hello_proc, \* per connection, whether its client HELLO has been processed
    nsend,      \* frames SendMessage has started to write
    tk,         \* the last gated tick: mode before, connection, wire length
    lastfull    \* the last full-redraw pass: what it rendered, what it emitted

capVars == <<client_wants_text_, client_wants_graphics_, client_wants_audio_>>
dimVars == <<cols_, rows_, prev_cols_, prev_rows_>>
gridVars == <<current_, previous_, cursor_, prev_cursor_>>
ansiVars == <<ansi_attr_, ansi_row_, ansi_col_>>
inputVars == <<input_state_, csi_params_, keybuf>>
guestVars == <<vga_mode, crtc, display_start, vmem, gsteps>>
sockVars == <<open_fds, backlog, nconn, inq, peer_closed, csent>>
flagVars == <<client_fd_, handshake_done_, mode_notified_, enabled_, force_redraw_>>
tickVars == <<vsync_count_, last_mode_, tk>>
histVars == <<hello_proc, nsend, lastfull>>
callVars == <<ret, mret, sarg, full, rmsg>>

vars == <<flagVars, capVars, tickVars, dimVars, gridVars, ansiVars, text_buffer_,
          inputVars, send_mutex_, pc, sched, callVars, guestVars, sockVars, wire,
          histVars>>

(***************************************************************************)
(* The state after construction and Listen()                               *)
(***************************************************************************)
\* cursor_ and prev_cursor_ have no initialiser: the first render pass reads
\* prev_cursor_ as whatever the allocation held
UninitCursors == {TextCursor(0, 0, FALSE), TextCursor(0, 0, TRUE), TextCursor(3, 1, TRUE)}

NoArg == [channel |-> 0, data |-> << >>, len |-> 0, fid |-> 0]

NoMsg == [channel |-> 0, payload |-> << >>]

NoPass == [valid |-> FALSE, current |-> ZeroGrid, rows |-> 0, cols |-> 0,
           cursor |-> TextCursor(0, 0, FALSE), out |-> << >>]

NoTick == [from |-> "M_ERROR", conn |-> 0, w0 |-> 0, changed |-> FALSE]

\* the members apart from the session's: the defaults of the class
InitFields ==
    /\ enabled_ = FALSE /\ force_redraw_ = TRUE
    /\ client_wants_text_ = TRUE /\ client_wants_graphics_ = FALSE
    /\ client_wants_audio_ = FALSE
    /\ vsync_count_ = 0 /\ last_mode_ = "M_ERROR"
    /\ cols_ = 80 /\ rows_ = 25 /\ prev_cols_ = 0 /\ prev_rows_ = 0
    /\ current_ = ZeroGrid /\ previous_ = ZeroGrid
    /\ prev_cursor_ \in UninitCursors /\ cursor_ = prev_cursor_
    /\ ansi_attr_ = ATTR_UNKNOWN /\ ansi_row_ = -1 /\ ansi_col_ = -1
    /\ text_buffer_ = << >>
    /\ input_state_ = "NORMAL" /\ csi_params_ = << >>
    /\ send_mutex_ = "none"

InitObject ==
    /\ client_fd_ = -1 /\ handshake_done_ = FALSE /\ mode_notified_ = FALSE
    /\ InitFields

InitLocals ==
    /\ pc = [t \in Threads |-> IF t = "vs" THEN "v_idle" ELSE "r_top"]
    /\ ret = [t \in Threads |-> "none"]
    /\ mret = [t \in Threads |-> "none"]
    /\ sarg = [t \in Threads |-> NoArg]
    /\ full = FALSE
    /\ rmsg = NoMsg

\* an 80-column text mode would be offset 40; the model runs the narrowest
\* one the registers allow (offset 1: 2 columns, 400 scan lines of 16: 25 rows)
InitEmulator ==
    /\ vga_mode = "M_TEXT"
    /\ crtc = [offset |-> 1, maximum_scan_line |-> 15, vertical_display_end |-> 399,
               cursor_location |-> 0, cursor_start |-> 0]
    /\ display_start = 0
    /\ vmem = [o \in {} |-> 0]
    /\ keybuf = << >>
    /\ gsteps = 0

InitSockets ==
    /\ open_fds = {} /\ backlog = 0 /\ nconn = 0
    /\ wire = [c \in Conns |-> << >>]
    /\ inq = [c \in Conns |-> << >>]
    /\ peer_closed = [c \in Conns |-> FALSE]
    /\ csent = [c \in Conns |-> 0]
    /\ hello_proc = [c \in Conns |-> FALSE]
    /\ nsend = 0
    /\ tk = NoTick
    /\ lastfull = NoPass

\* the state after construction and Listen(), with the executors taking turns
Init == InitObject /\ InitLocals /\ InitEmulator /\ InitSockets /\ sched = "turns"

\* the same, with the executors interleaving freely
InitConc == InitObject /\ InitLocals /\ InitEmulator /\ InitSockets /\ sched = "free"

\* the same, with the executors taking turns during the first session and
\* interleaving freely from its end on
InitHandover == InitObject /\ InitLocals /\ InitEmulator /\ InitSockets /\ sched = "handover"

(***************************************************************************)
(* SendMessage, run by executor t with arguments sarg[t]                   *)
(***************************************************************************)
Goto(t, l) == pc' = [pc EXCEPT ![t] = l]

\* where executor t rests between two operations
Rest(t) == IF t = "vs" THEN "v_idle" ELSE "r_top"

\* what each client sends when clients follow a script: HELLO, then GOODBYE
ClientScript ==
    <<FrameHeader(CH_CONTROL, 5) \o <<MSG_HELLO, 0, 1, 1, CAP_TEXT_OUTPUT>>,
      FrameHeader(CH_CONTROL, 1) \o <<MSG_GOODBYE>>>>

\* a tick has passed the gate for the first client and that client has sent
\* all of its script: its session is about to end
HandoverBegun == csent[1] = Len(ClientScript) /\ vsync_count_ >= 1

\* the executors interleave step by step: always under "free", from the end
\* of the first session on under "handover", never under "turns"
Interleaved == sched = "free" \/ (sched = "handover" /\ HandoverBegun)

\* executor t may take a step: any time when the executors interleave,
\* otherwise only while the other one rests
Turn(t) == Interleaved \/ \A u \in Threads \ {t} : pc[u] = Rest(u)

\* executor t is at label l and may take a step
At(t, l) == pc[t] = l /\ Turn(t)

\* the environment may act: any time when the executors interleave,
\* otherwise between their operations
Quiet == Interleaved \/ \A u \in Threads : pc[u] = Rest(u)

\* what one write() call by t leaves on the wire: the bytes, tagged with the
\* frame they belong to, whether the connection's client HELLO has been
\* processed, the mode last observed by OnVSync and the connection its last
\* tick was gated for
Chunk(t, part, bytes) ==
    [fid |-> sarg[t].fid, by |-> t, ch |-> sarg[t].channel, part |-> part, bytes |-> bytes,
     hs |-> hello_proc[client_fd_], mode |-> last_mode_, gate |-> tk.conn]

\* write(client_fd_, buf, want) that writes everything, or fails on a
\* descriptor that is closed
FullWrite(want) == IF client_fd_ \in open_fds THEN want ELSE -1

\* the results write(client_fd_, buf, want) can have on a non-blocking
\* socket: an error, or any part of the bytes
WriteResults(want) ==
    IF client_fd_ \in open_fds
    THEN {n \in {-1, 1, want \div 2, want - 1, want} : n = -1 \/ (1 <= n /\ n <= want)}
    ELSE {-1}

\* if (client_fd_ < 0 || len > 0xFFFFFF) return;
SendCheck(t) ==
    /\ At(t, "s_check")
    /\ Goto(t, IF client_fd_ < 0 \/ FrameTooLong(sarg[t].len) THEN ret[t] ELSE "s_lock")
    /\ UNCHANGED <<sched, flagVars, capVars, tickVars, dimVars, gridVars, ansiVars, text_buffer_,
                   inputVars, send_mutex_, callVars, guestVars, sockVars, wire,
                   histVars>>

\* std::lock_guard<std::mutex> lock(send_mutex_);
SendLock(t) ==
    /\ At(t, "s_lock")
    /\ CanLock(send_mutex_)
    /\ send_mutex_' = t
    /\ nsend' = nsend + 1
    /\ sarg' = [sarg EXCEPT ![t].fid = nsend + 1]
    /\ Goto(t, "s_hdr")
    /\ UNCHANGED <<sched, flagVars, capVars, tickVars, dimVars, gridVars, ansiVars,
                   text_buffer_, inputVars, ret, mret, full, rmsg, guestVars, sockVars,
                   wire, hello_proc, lastfull>>

\* sent = write(client_fd_, header, 4) with result n; if (sent != 4) return;
SendHeader(t, n) ==
    /\ At(t, "s_hdr")
    /\ wire' = IF n > 0
               THEN [wire EXCEPT ![client_fd_] =
                        Append(@, Chunk(t, "hdr", Take(FrameHeader(sarg[t].channel, sarg[t].len), n)))]
               ELSE wire
    /\ IF n = 4 /\ sarg[t].len > 0
       THEN Goto(t, "s_pay") /\ UNCHANGED send_mutex_
       ELSE Goto(t, ret[t]) /\ send_mutex_' = IF send_mutex_ = t THEN "none" ELSE send_mutex_
    /\ UNCHANGED <<sched, flagVars, capVars, tickVars, dimVars, gridVars, ansiVars, text_buffer_,
                   inputVars, callVars, guestVars, sockVars, histVars>>

\* sent = write(client_fd_, data, len) with result n; the lock is released
SendPayload(t, n) ==
    /\ At(t, "s_pay")
    /\ wire' = IF n > 0
               THEN [wire EXCEPT ![client_fd_] =
                        Append(@, Chunk(t, "pay", Take(sarg[t].data, n)))]
               ELSE wire
    /\ send_mutex_' = IF send_mutex_ = t THEN "none" ELSE send_mutex_
    /\ Goto(t, ret[t])
    /\ UNCHANGED <<sched, flagVars, capVars, tickVars, dimVars, gridVars, ansiVars, text_buffer_,
                   inputVars, callVars, guestVars, sockVars, histVars>>

\* the call SendMessage(channel, data, data.size()) made by t, returning to r
CallSend(t, channel, data, r) ==
    /\ sarg' = [sarg EXCEPT ![t] = [channel |-> channel, data |-> data, len |-> Len(data),
                                    fid |-> 0]]
    /\ ret' = [ret EXCEPT ![t] = r]
    /\ Goto(t, "s_check")

(***************************************************************************)
(* SendModeNotification, run by executor t                                 *)
(***************************************************************************)
\* if (!handshake_done_) return; then MODE_TEXT, MODE_UNSUPPORTED or nothing
SmnCheck(t) ==
    /\ At(t, "smn_check")
    /\ LET data == ModeNotification(vga_mode, cols_, rows_)
       IN  IF handshake_done_ /\ data # << >>
           THEN CallSend(t, CH_CONTROL, data, "smn_done")
           ELSE Goto(t, mret[t]) /\ UNCHANGED <<sarg, ret>>
    /\ UNCHANGED <<sched, flagVars, capVars, tickVars, dimVars, gridVars, ansiVars, text_buffer_,
                   inputVars, send_mutex_, mret, full, rmsg, guestVars, sockVars, wire,
                   histVars>>

\* mode_notified_ = true;
SmnDone(t) ==
    /\ At(t, "smn_done")
    /\ mode_notified_' = TRUE
    /\ Goto(t, mret[t])
    /\ UNCHANGED <<sched, client_fd_, handshake_done_, enabled_, force_redraw_, capVars, tickVars,
                   dimVars, gridVars, ansiVars, text_buffer_, inputVars, send_mutex_,
                   callVars, guestVars, sockVars, wire, histVars>>

(***************************************************************************)
(* The vsync context: OnVSync                                              *)
(***************************************************************************)
\* if (!enabled_ || client_fd_ < 0 || !handshake_done_) return;
VSyncGate(enabled, fd, done) == enabled /\ fd >= 0 /\ done

\* The gate, vsync_count_++ and the mode-change test.  limit bounds the
\* ticks of a run.
VGate(limit) ==
    /\ At("vs", "v_idle")
    /\ vsync_count_ < limit
    /\ IF VSyncGate(enabled_, client_fd_, handshake_done_)
       THEN /\ vsync_count_' = vsync_count_ + 1
            /\ tk' = [from |-> last_mode_, conn |-> client_fd_,
                      w0 |-> Len(wire[client_fd_]), changed |-> vga_mode # last_mode_]
            /\ IF vga_mode # last_mode_
               THEN /\ last_mode_' = vga_mode
                    /\ mode_notified_' = FALSE
                    /\ mret' = [mret EXCEPT !["vs"] = "v_force"]
                    /\ Goto("vs", "smn_check")
               ELSE /\ UNCHANGED <<last_mode_, mode_notified_, mret>>
                    /\ Goto("vs", "v_text")
       ELSE UNCHANGED <<vsync_count_, tk, last_mode_, mode_notified_, mret, pc>>
    /\ UNCHANGED <<sched, client_fd_, handshake_done_, enabled_, force_redraw_, capVars, dimVars,
                   gridVars, ansiVars, text_buffer_, inputVars, send_mutex_, ret, sarg,
                   full, rmsg, guestVars, sockVars, wire, histVars>>

\* force_redraw_ = true; after the mode notification
VForce ==
    /\ At("vs", "v_force")
    /\ force_redraw_' = TRUE
    /\ Goto("vs", "v_text")
    /\ UNCHANGED <<sched, client_fd_, handshake_done_, mode_notified_, enabled_, capVars, tickVars,
                   dimVars, gridVars, ansiVars, text_buffer_, inputVars, send_mutex_,
                   callVars, guestVars, sockVars, wire, histVars>>

\* the text branch without the periodic refresh
VTextNoPeriodic ==
    /\ At("vs", "v_text")
    /\ IF IsTextMode(vga_mode) /\ client_wants_text_
       THEN LET c == SnapshotCols(crtc.offset)
                r == SnapshotRows(crtc.maximum_scan_line, crtc.vertical_display_end)
                resized == c # prev_cols_ \/ r # prev_rows_
            IN  /\ cols_' = c /\ rows_' = r
                /\ prev_cols_' = c /\ prev_rows_' = r
                /\ force_redraw_' = IF resized THEN TRUE ELSE force_redraw_
                /\ IF resized
                   THEN mret' = [mret EXCEPT !["vs"] = "v_snap"] /\ Goto("vs", "smn_check")
                   ELSE UNCHANGED mret /\ Goto("vs", "v_snap")
       ELSE /\ Goto("vs", "v_idle")
            /\ UNCHANGED <<dimVars, force_redraw_, mret>>
    /\ UNCHANGED <<sched, client_fd_, handshake_done_, mode_notified_, enabled_, capVars, tickVars,
                   gridVars, ansiVars, text_buffer_, inputVars, send_mutex_, ret, sarg,
                   full, rmsg, guestVars, sockVars, wire, histVars>>

\* if (IsTextMode() && client_wants_text_): the periodic refresh, then the
\* dimensions of SnapshotTextBuffer and its notification of a change
VText ==
    /\ At("vs", "v_text")
    /\ IF IsTextMode(vga_mode) /\ client_wants_text_
       THEN LET c == SnapshotCols(crtc.offset)
                r == SnapshotRows(crtc.maximum_scan_line, crtc.vertical_display_end)
                resized == c # prev_cols_ \/ r # prev_rows_
            IN  /\ cols_' = c /\ rows_' = r
                /\ prev_cols_' = c /\ prev_rows_' = r
                /\ force_redraw_' = IF vsync_count_ % REFRESH_PERIOD = 0 \/ resized
                                    THEN TRUE ELSE force_redraw_
                /\ IF resized
                   THEN mret' = [mret EXCEPT !["vs"] = "v_snap"] /\ Goto("vs", "smn_check")
                   ELSE UNCHANGED mret /\ Goto("vs", "v_snap")
       ELSE /\ Goto("vs", "v_idle")
            /\ UNCHANGED <<dimVars, force_redraw_, mret>>
    /\ UNCHANGED <<sched, client_fd_, handshake_done_, mode_notified_, enabled_, capVars, tickVars,
                   gridVars, ansiVars, text_buffer_, inputVars, send_mutex_, ret, sarg,
                   full, rmsg, guestVars, sockVars, wire, histVars>>

\* the cell loop of SnapshotTextBuffer, SnapshotCursor, and the first lines
\* of GenerateTextOutput: text_buffer_.clear(); bool full = force_redraw_;
VSnap ==
    /\ At("vs", "v_snap")
    /\ current_' = SnapshotCells(current_, vmem, display_start, rows_, cols_)
    /\ cursor_' = SnapshotCursor(crtc.cursor_location, crtc.cursor_start, cols_)
    /\ text_buffer_' = << >>
    /\ full' = force_redraw_
    /\ Goto("vs", "v_clear")
    /\ UNCHANGED <<sched, flagVars, capVars, tickVars, dimVars, previous_, prev_cursor_, ansiVars,
                   inputVars, send_mutex_, ret, mret, sarg, rmsg, guestVars, sockVars,
                   wire, histVars>>

\* force_redraw_ = false;
VClear ==
    /\ At("vs", "v_clear")
    /\ force_redraw_' = FALSE
    /\ Goto("vs", "v_render")
    /\ UNCHANGED <<sched, client_fd_, handshake_done_, mode_notified_, enabled_, capVars, tickVars,
                   dimVars, gridVars, ansiVars, text_buffer_, inputVars, send_mutex_,
                   callVars, guestVars, sockVars, wire, histVars>>

\* FlushTextOutput: if (text_buffer_.empty()) return;
FlushSends(buf) == buf # << >>

\* the cells, the cursor, then FlushTextOutput
VRender ==
    /\ At("vs", "v_render")
    /\ LET e == RenderPass(full, current_, previous_, rows_, cols_, cursor_, prev_cursor_,
                           ansi_attr_, ansi_row_, ansi_col_)
       IN  /\ text_buffer_' = e.buf
           /\ ansi_attr_' = e.attr /\ ansi_row_' = e.row /\ ansi_col_' = e.col
           /\ lastfull' = IF full
                          THEN [valid |-> TRUE, current |-> current_, rows |-> rows_,
                                cols |-> cols_, cursor |-> cursor_, out |-> e.buf]
                          ELSE lastfull
           /\ IF FlushSends(e.buf)
              THEN CallSend("vs", CH_TEXT_OUT, e.buf, "v_copy")
              ELSE Goto("vs", "v_copy") /\ UNCHANGED <<sarg, ret>>
    /\ UNCHANGED <<sched, flagVars, capVars, tickVars, dimVars, gridVars, inputVars, send_mutex_,
                   mret, full, rmsg, guestVars, sockVars, wire, hello_proc, nsend>>

\* memcpy(previous_, current_, sizeof(previous_)); prev_cursor_ = cursor_;
VCopy ==
    /\ At("vs", "v_copy")
    /\ previous_' = current_
    /\ prev_cursor_' = cursor_
    /\ Goto("vs", "v_idle")
    /\ UNCHANGED <<sched, flagVars, capVars, tickVars, dimVars, current_, cursor_, ansiVars,
                   text_buffer_, inputVars, send_mutex_, callVars, guestVars, sockVars,
                   wire, histVars>>

(***************************************************************************)
(* The reader worker: InputThreadFunc                                      *)
(***************************************************************************)
\* client_fd_ = accept(listen_fd_, ...) with a client waiting
RAccept ==
    /\ At("rd", "r_top")
    /\ client_fd_ < 0
    /\ backlog > 0
    /\ backlog' = backlog - 1
    /\ nconn' = nconn + 1
    /\ open_fds' = open_fds \cup {nconn + 1}
    /\ client_fd_' = nconn + 1
    /\ Goto("rd", "r_accepted")
    /\ UNCHANGED <<sched, handshake_done_, mode_notified_, enabled_, force_redraw_, capVars,
                   tickVars, dimVars, gridVars, ansiVars, text_buffer_, inputVars,
                   send_mutex_, callVars, guestVars, inq, peer_closed, csent, wire,
                   histVars>>

\* handshake_done_ = false; mode_notified_ = false; SendHello();
RAccepted ==
    /\ At("rd", "r_accepted")
    /\ handshake_done_' = FALSE
    /\ mode_notified_' = FALSE
    /\ CallSend("rd", CH_CONTROL, HelloPayload, "r_inval")
    /\ UNCHANGED <<sched, client_fd_, enabled_, force_redraw_, capVars, tickVars, dimVars,
                   gridVars, ansiVars, text_buffer_, inputVars, send_mutex_, mret, full,
                   rmsg, guestVars, sockVars, wire, histVars>>

\* Invalidate(): force_redraw_ = true;
RInvalidate ==
    /\ At("rd", "r_inval")
    /\ force_redraw_' = TRUE
    /\ Goto("rd", "r_inval2")
    /\ UNCHANGED <<sched, client_fd_, handshake_done_, mode_notified_, enabled_, capVars, tickVars,
                   dimVars, gridVars, ansiVars, text_buffer_, inputVars, send_mutex_,
                   callVars, guestVars, sockVars, wire, histVars>>

\* Invalidate(): ansi_attr_ = 0xFF; ansi_row_ = -1; ansi_col_ = -1;
RInvalidate2 ==
    /\ At("rd", "r_inval2")
    /\ ansi_attr_' = ATTR_UNKNOWN /\ ansi_row_' = -1 /\ ansi_col_' = -1
    /\ Goto("rd", "r_top")
    /\ UNCHANGED <<sched, flagVars, capVars, tickVars, dimVars, gridVars, text_buffer_, inputVars,
                   send_mutex_, callVars, guestVars, sockVars, wire, histVars>>

\* poll() reports the client readable: data, or the end of the stream
Readable(c) == inq[c] # << >> \/ peer_closed[c]

\* poll(), ReadMessage() and, when that fails, the MSG_PEEK test for a
\* closed connection
RPoll ==
    /\ At("rd", "r_top")
    /\ client_fd_ >= 0
    /\ Readable(client_fd_)
    /\ LET m == ReadMessage(inq[client_fd_])
       IN  /\ inq' = [inq EXCEPT ![client_fd_] = m.rest]
           /\ IF m.ok
              THEN rmsg' = [channel |-> m.channel, payload |-> m.payload]
                   /\ Goto("rd", "r_dispatch")
              ELSE UNCHANGED rmsg
                   /\ Goto("rd", IF peer_closed[client_fd_] THEN "r_close" ELSE "r_top")
    /\ UNCHANGED <<sched, flagVars, capVars, tickVars, dimVars, gridVars, ansiVars, text_buffer_,
                   inputVars, send_mutex_, ret, mret, sarg, full, guestVars, open_fds,
                   backlog, nconn, peer_closed, csent, wire, histVars>>

\* a dispatch that hands every HELLO to the capability loop, whatever its size
DispatchAnyHello(m) ==
    IF m.channel = CH_CONTROL /\ Len(m.payload) >= 1
    THEN CASE m.payload[1] = MSG_HELLO -> "r_hello"
           [] m.payload[1] = MSG_GOODBYE -> "r_close"
           [] m.payload[1] = MSG_REFRESH -> "r_inval"
           [] OTHER -> "r_top"
    ELSE "r_top"

\* a dispatch that takes no notice of GOODBYE
DispatchNoGoodbye(m) ==
    IF m.channel = CH_CONTROL /\ Len(m.payload) >= 1
    THEN CASE m.payload[1] = MSG_HELLO ->
                 IF Len(m.payload) - 1 < 3 THEN "r_top" ELSE "r_hello"
           [] m.payload[1] = MSG_REFRESH -> "r_inval"
           [] OTHER -> "r_top"
    ELSE "r_top"

\* ProcessMessage and HandleControlInput: where the message takes the worker
Dispatch(m) ==
    IF m.channel = CH_CONTROL /\ Len(m.payload) >= 1
    THEN CASE m.payload[1] = MSG_HELLO ->
                 IF Len(m.payload) - 1 < 3 THEN "r_top" ELSE "r_hello"
           [] m.payload[1] = MSG_GOODBYE -> "r_close"
           [] m.payload[1] = MSG_REFRESH -> "r_inval"
           [] OTHER -> "r_top"
    ELSE "r_top"

\* ProcessMessage: the switch on the channel; HandleKeyboardInput runs the
\* tokenizer over the payload, HandleMouseInput does nothing
RDispatch ==
    /\ At("rd", "r_dispatch")
    /\ Goto("rd", Dispatch(rmsg))
    /\ IF rmsg.channel = CH_KEYBOARD_IN
       THEN LET k == HandleKeyboardInput([state |-> input_state_, params |-> csi_params_,
                                          keys |-> keybuf], rmsg.payload)
            IN  input_state_' = k.state /\ csi_params_' = k.params /\ keybuf' = k.keys
       ELSE UNCHANGED inputVars
    /\ UNCHANGED <<sched, flagVars, capVars, tickVars, dimVars, gridVars, ansiVars, text_buffer_,
                   send_mutex_, callVars, guestVars, sockVars, wire, histVars>>

\* HandleHello: the capability loop
RHello ==
    /\ At("rd", "r_hello")
    /\ LET payload == Tail(rmsg.payload)
       IN  /\ client_wants_text_' = HelloWantsText(payload)
           /\ client_wants_graphics_' = HelloWantsGraphics(payload)
           /\ client_wants_audio_' = HelloWantsAudio(payload)
    /\ Goto("rd", "r_hsdone")
    /\ UNCHANGED <<sched, flagVars, tickVars, dimVars, gridVars, ansiVars, text_buffer_, inputVars,
                   send_mutex_, callVars, guestVars, sockVars, wire, histVars>>

\* HandleHello: handshake_done_ = true; SendModeNotification();
RHandshakeDone ==
    /\ At("rd", "r_hsdone")
    /\ handshake_done_' = TRUE
    /\ hello_proc' = [hello_proc EXCEPT ![client_fd_] = TRUE]
    /\ mret' = [mret EXCEPT !["rd"] = "r_top"]
    /\ Goto("rd", "smn_check")
    /\ UNCHANGED <<sched, client_fd_, mode_notified_, enabled_, force_redraw_, capVars, tickVars,
                   dimVars, gridVars, ansiVars, text_buffer_, inputVars, send_mutex_, ret,
                   sarg, full, rmsg, guestVars, sockVars, wire, nsend, lastfull>>

\* close(client_fd_);  (GOODBYE, or the peer has closed)
RClose ==
    /\ At("rd", "r_close")
    /\ open_fds' = open_fds \ {client_fd_}
    /\ Goto("rd", "r_fdneg")
    /\ UNCHANGED <<sched, flagVars, capVars, tickVars, dimVars, gridVars, ansiVars, text_buffer_,
                   inputVars, send_mutex_, callVars, guestVars, backlog, nconn, inq,
                   peer_closed, csent, wire, histVars>>

\* client_fd_ = -1;
RForget ==
    /\ At("rd", "r_fdneg")
    /\ client_fd_' = -1
    /\ Goto("rd", "r_hsreset")
    /\ UNCHANGED <<sched, handshake_done_, mode_notified_, enabled_, force_redraw_, capVars,
                   tickVars, dimVars, gridVars, ansiVars, text_buffer_, inputVars,
                   send_mutex_, callVars, guestVars, sockVars, wire, histVars>>

\* handshake_done_ = false;
RReset ==
    /\ At("rd", "r_hsreset")
    /\ handshake_done_' = FALSE
    /\ Goto("rd", "r_top")
    /\ UNCHANGED <<sched, client_fd_, mode_notified_, enabled_, force_redraw_, capVars, tickVars,
                   dimVars, gridVars, ansiVars, text_buffer_, inputVars, send_mutex_,
                   callVars, guestVars, sockVars, wire, histVars>>

(***************************************************************************)
(* The environment: the start-up code, the clients, the guest              *)
(***************************************************************************)
objVars == <<capVars, tickVars, dimVars, gridVars, ansiVars, text_buffer_, send_mutex_,
             pc, callVars, wire, histVars>>

\* VGA_TextStream_Init: g_textstream->SetEnabled(true), after Listen() has
\* started the reader worker
SetEnabled ==
    /\ Quiet
    /\ ~enabled_
    /\ enabled_' = TRUE
    /\ UNCHANGED <<sched, client_fd_, handshake_done_, mode_notified_, force_redraw_, objVars,
                   inputVars, guestVars, sockVars>>

\* a client connects to the listening socket
ClientConnect(limit) ==
    /\ Quiet
    /\ nconn + backlog < limit
    /\ backlog' = backlog + 1
    /\ UNCHANGED <<sched, flagVars, objVars, inputVars, guestVars, open_fds, nconn, inq,
                   peer_closed, csent>>

\* the frames a client sends
ClientFrame(channel, payload) == FrameHeader(channel, Len(payload)) \o payload

ClientHello(caps) == ClientFrame(CH_CONTROL, <<MSG_HELLO, 0, 1, Len(caps)>> \o caps)

ClientGoodbye == ClientFrame(CH_CONTROL, <<MSG_GOODBYE>>)

ClientRefresh == ClientFrame(CH_CONTROL, <<MSG_REFRESH>>)

\* the client of connection c sends one whole frame
ClientSend(c, frame) ==
    /\ Quiet
    /\ c \in open_fds
    /\ ~peer_closed[c]
    /\ csent[c] < MaxClientFrames
    /\ csent' = [csent EXCEPT ![c] = @ + 1]
    /\ inq' = [inq EXCEPT ![c] = @ \o frame]
    /\ UNCHANGED <<sched, flagVars, objVars, inputVars, guestVars, open_fds, backlog, nconn,
                   peer_closed>>

\* the client of connection c closes its end
ClientClose(c) ==
    /\ Quiet
    /\ c \in open_fds
    /\ ~peer_closed[c]
    /\ peer_closed' = [peer_closed EXCEPT ![c] = TRUE]
    /\ UNCHANGED <<sched, flagVars, objVars, inputVars, guestVars, open_fds, backlog, nconn,
                   inq, csent>>

\* the values vga.mode takes in the model: a text mode, a graphics mode, and
\* one that IsTextMode and IsGraphicsMode both reject
Modes == {"M_TEXT", "M_VGA", "M_ERROR"}

\* the guest program sets a video mode
GuestSetMode(m) ==
    /\ Quiet
    /\ gsteps < MaxGuestSteps
    /\ m # vga_mode
    /\ vga_mode' = m
    /\ gsteps' = gsteps + 1
    /\ UNCHANGED <<sched, flagVars, objVars, inputVars, crtc, display_start, vmem, sockVars>>

\* the bytes the guest writes to the text plane
GuestBytes == {32, 65}

\* the guest program writes one byte of the text plane
GuestWrite(off, b) ==
    /\ Quiet
    /\ gsteps < MaxGuestSteps
    /\ mem_readb(vmem, off) # b
    /\ gsteps' = gsteps + 1
    /\ vmem' = [o \in DOMAIN vmem \cup {off} |-> IF o = off THEN b ELSE vmem[o]]
    /\ UNCHANGED <<sched, flagVars, objVars, inputVars, vga_mode, crtc, display_start, sockVars>>

\* the guest program moves the hardware cursor, or hides or shows it
GuestSetCursor(loc, start) ==
    /\ Quiet
    /\ gsteps < MaxGuestSteps
    /\ <<loc, start>> # <<crtc.cursor_location, crtc.cursor_start>>
    /\ gsteps' = gsteps + 1
    /\ crtc' = [crtc EXCEPT !.cursor_location = loc, !.cursor_start = start]
    /\ UNCHANGED <<sched, flagVars, objVars, inputVars, vga_mode, display_start, vmem, sockVars>>

(***************************************************************************)
(* The two executors                                                       *)
(***************************************************************************)
\* one step of SendMessage or SendModeNotification by executor t, every
\* write() writing all it is given
CallStep(t) ==
    \/ SendCheck(t)
    \/ SendLock(t)
    \/ SendHeader(t, FullWrite(4))
    \/ SendPayload(t, FullWrite(sarg[t].len))
    \/ SmnCheck(t)
    \/ SmnDone(t)

\* one step of OnVSync
VSyncStep ==
    \/ VGate(MaxTicks)
    \/ VForce
    \/ VText
    \/ VSnap
    \/ VClear
    \/ VRender
    \/ VCopy
    \/ CallStep("vs")

\* one step of InputThreadFunc
ReaderStep ==
    \/ RAccept
    \/ RAccepted
    \/ RInvalidate
    \/ RInvalidate2
    \/ RPoll
    \/ RDispatch
    \/ RHello
    \/ RHandshakeDone
    \/ RClose
    \/ RForget
    \/ RReset
    \/ CallStep("rd")

(***************************************************************************)
(* Spec: one executor at a time.  A vsync tick and a pass of the reader's  *)
(* loop each run to completion; the guest and the clients act in between.  *)
(***************************************************************************)
GuestStep ==
    \/ \E m \in Modes : GuestSetMode(m)
    \/ \E off \in 0 .. MaxVmem - 1, b \in GuestBytes : GuestWrite(off, b)
    \/ \E loc \in {0, 1}, start \in {0, 32} : GuestSetCursor(loc, start)

ClientStep ==
    \/ ClientConnect(MaxSeqConn)
    \/ \E c \in Conns, f \in {ClientHello(<<CAP_TEXT_OUTPUT>>), ClientGoodbye, ClientRefresh} :
          ClientSend(c, f)
    \/ \E c \in Conns : ClientClose(c)

Next == VSyncStep \/ ReaderStep \/ SetEnabled \/ GuestStep \/ ClientStep

Spec == Init /\ [][Next]_vars

(***************************************************************************)
(* SpecConc: one client; the reader worker and the vsync context           *)
(* interleave step by step; the guest leaves the screen alone.             *)
(***************************************************************************)
ConcClientStep ==
    \/ ClientConnect(MaxSeqConn)
    \/ \E c \in Conns, f \in {ClientHello(<<CAP_TEXT_OUTPUT>>), ClientGoodbye, ClientRefresh} :
          ClientSend(c, f)

NextConc == VSyncStep \/ ReaderStep \/ SetEnabled \/ ConcClientStep

SpecConc == InitConc /\ [][NextConc]_vars

(***************************************************************************)
(* SpecHandover: two clients, one after the other, each following          *)
(* ClientScript.  The executors take turns while the first client is       *)
(* served and interleave step by step once it has been streamed to and has *)
(* said GOODBYE.                                                           *)
(***************************************************************************)
\* the frames of ClientScript client c sends: all of them, but the last
\* client stays connected
ScriptLen(c) == IF c = MaxConn THEN Len(ClientScript) - 1 ELSE Len(ClientScript)

\* the client of connection c sends the next frame of its script
ClientFollow(c) ==
    /\ csent[c] < ScriptLen(c)
    /\ ClientSend(c, ClientScript[csent[c] + 1])

HandoverClientStep ==
    \/ ClientConnect(MaxConn)
    \/ \E c \in Conns : ClientFollow(c)

NextHandover == VSyncStep \/ ReaderStep \/ SetEnabled \/ HandoverClientStep

SpecHandover == InitHandover /\ [][NextHandover]_vars
(***************************************************************************)
(* What is on the wire                                                     *)
(***************************************************************************)
\* the bytes of a sequence of writes
RECURSIVE WireBytes(_)
WireBytes(chunks) ==
    IF chunks = << >> THEN << >> ELSE Head(chunks).bytes \o WireBytes(Tail(chunks))

\* the writes of the server's own CONTROL/HELLO
IsServerHello(k) ==
    /\ k.ch = CH_CONTROL
    /\ k.part = "hdr" => k.bytes = FrameHeader(CH_CONTROL, Len(HelloPayload))
    /\ k.part = "pay" => k.bytes = HelloPayload

\* the payload write of a MODE_TEXT or MODE_UNSUPPORTED frame
IsModeNotice(k) ==
    /\ k.ch = CH_CONTROL
    /\ k.part = "pay"
    /\ k.bytes[1] \in {MSG_MODE_TEXT, MSG_MODE_UNSUPPORTED}

\* the writes of the tick tk describes, on the connection it was gated for
TickWrites == SubSeq(wire[tk.conn], tk.w0 + 1, Len(wire[tk.conn]))

\* every cell of current equals previous within the extent
SameInExtent ==
    \A p \in Extent(rows_, cols_) : CellAt(current_, p[1], p[2]) = CellAt(previous_, p[1], p[2])

(***************************************************************************)
(* Claims under SpecConc and SpecHandover                                  *)
(***************************************************************************)
\* C1 (handshake gating): on every connection, every write made before that
\* connection's client HELLO has been processed belongs to the server's own
\* CONTROL/HELLO frame.
C1_HandshakeGating ==
    \A c \in Conns : \A i \in 1 .. Len(wire[c]) :
        ~wire[c][i].hs => IsServerHello(wire[c][i])

\* C4 (single writer): on every connection the writes of one frame are
\* adjacent, header first: no write of another frame comes between them.
C4_NoInterleaving ==
    \A c \in Conns : \A i, k \in 1 .. Len(wire[c]) :
        (i < k /\ wire[c][i].fid = wire[c][k].fid) =>
            (k = i + 1 /\ wire[c][i].part = "hdr" /\ wire[c][k].part = "pay")

\* both executors have written to the same connection, and one of them is
\* held at the lock while the other is inside SendMessage
C4_Witness ==
    /\ pc["rd"] = "s_lock" /\ send_mutex_ = "vs" /\ pc["vs"] = "s_pay"
    /\ \E c \in Conns : {wire[c][i].by : i \in 1 .. Len(wire[c])} = Threads

\* C5 (mode notification precedes text): on every connection, a TEXT_OUT
\* write made after the client HELLO was processed, by a tick that passed
\* the gate for this very connection, has a MODE_TEXT or MODE_UNSUPPORTED
\* payload before it on that connection.
C5_ModeBeforeText ==
    \A c \in Conns : \A i \in 1 .. Len(wire[c]) :
        (wire[c][i].ch = CH_TEXT_OUT /\ wire[c][i].hs /\ wire[c][i].gate = c) =>
            \E j \in 1 .. i - 1 : IsModeNotice(wire[c][j])

(***************************************************************************)
(* Claims under Spec                                                       *)
(***************************************************************************)
\* the tick in progress observed the mode go from a text mode to a graphics
\* mode, and its notification is behind it
TextToGraphicsTick ==
    /\ pc["vs"] = "v_text"
    /\ tk.changed
    /\ tk.from \in {"M_TEXT", "M_HERC_TEXT", "M_TANDY_TEXT"}
    /\ last_mode_ = "M_VGA"

\* C6 (transition to graphics): the tick that observes text -> graphics
\* writes exactly 00 00 00 01 12, and no TEXT_OUT write is ever made while
\* the mode last observed is not a text mode.
C6_GraphicsTransition ==
    /\ TextToGraphicsTick => WireBytes(TickWrites) = <<0, 0, 0, 1, 18>>
    /\ \A c \in Conns : \A i \in 1 .. Len(wire[c]) :
          wire[c][i].ch = CH_TEXT_OUT => wire[c][i].mode \in {"M_TEXT", "M_HERC_TEXT", "M_TANDY_TEXT"}

\* a text -> graphics tick after a tick that streamed text
C6_Witness ==
    /\ TextToGraphicsTick
    /\ WireBytes(TickWrites) = <<0, 0, 0, 1, 18>>
    /\ \E i \in 1 .. tk.w0 : wire[tk.conn][i].ch = CH_TEXT_OUT

\* C7 (mode-change notification): on a gated tick that observes a mode
\* other than the last one, whatever the new mode, a MODE_TEXT or
\* MODE_UNSUPPORTED payload is written during the tick and force_redraw_ is
\* set once the mode-change block is done.
C7_ModeChangeNotified ==
    (pc["vs"] = "v_text" /\ tk.changed) =>
        /\ \E i \in 1 .. Len(TickWrites) : IsModeNotice(TickWrites[i])
        /\ force_redraw_

\* C9 (diff idempotence): when a differential pass has rendered a screen
\* whose cells equal previous within the extent and whose cursor equals
\* prev_cursor, the payload is empty and the tick has written no TEXT_OUT.
C9_DiffIdempotent ==
    (pc["vs"] = "v_copy" /\ ~full /\ SameInExtent /\ cursor_ = prev_cursor_) =>
        /\ text_buffer_ = << >>
        /\ \A i \in 1 .. Len(TickWrites) : TickWrites[i].ch # CH_TEXT_OUT

\* such a pass, after a pass that did stream the screen
C9_Witness ==
    /\ pc["vs"] = "v_copy" /\ ~full /\ SameInExtent /\ cursor_ = prev_cursor_
    /\ text_buffer_ = << >>
    /\ \E i \in 1 .. tk.w0 : wire[tk.conn][i].ch = CH_TEXT_OUT
    /\ \E p \in Extent(rows_, cols_) : CellAt(current_, p[1], p[2]).character = 65

\* C10 (full-redraw determinism): a full-redraw pass about to render the
\* same grid, dimensions and cursor as the full-redraw pass before it emits
\* the bytes that pass emitted.
C10_FullRedrawDeterministic ==
    ( /\ pc["vs"] = "v_render" /\ full /\ lastfull.valid
      /\ lastfull.rows = rows_ /\ lastfull.cols = cols_ /\ lastfull.cursor = cursor_
      /\ \A p \in Extent(rows_, cols_) :
            CellAt(lastfull.current, p[1], p[2]) = CellAt(current_, p[1], p[2]) ) =>
        RenderPass(TRUE, current_, previous_, rows_, cols_, cursor_, prev_cursor_,
                   ansi_attr_, ansi_row_, ansi_col_).buf = lastfull.out
(***************************************************************************)
(* SpecFrame: one call of SendMessage in an established session, its       *)
(* arguments drawn from FrameChannels and FramePayloads, every write()     *)
(* free to be short or to fail; the client sends the frame's bytes back    *)
(* and ReadMessage decodes them.                                           *)
(***************************************************************************)
FrameChannels == {CH_CONTROL, CH_TEXT_OUT, CH_KEYBOARD_IN, 65, 255}

FramePayloadLens == {0, 1, 2, 3, 5, 256, 257}

\* a payload of n bytes, no two neighbours alike
FramePayload(n) == [i \in 1 .. n |-> (i * 37 + 11) % 256]

\* the arguments of the call: a payload that fits, or one of 0x1000000 bytes
\* (SendMessage never reads the bytes of that one: only its length is kept)
FrameArgs ==
    {[channel |-> c, data |-> FramePayload(n), len |-> n, fid |-> 0] :
        c \in FrameChannels, n \in FramePayloadLens}
    \cup {[channel |-> c, data |-> << >>, len |-> MAX_FRAME_LEN + 1, fid |-> 0] :
            c \in FrameChannels}

\* the writes of a frame the reader worker sent whole
ServedFrame(fid, hs, payload) ==
    LET k == [fid |-> fid, by |-> "rd", ch |-> CH_CONTROL, part |-> "hdr",
              bytes |-> FrameHeader(CH_CONTROL, Len(payload)), hs |-> hs,
              mode |-> "M_ERROR", gate |-> 0]
    IN  <<k, [k EXCEPT !.part = "pay", !.bytes = payload]>>

\* connection 1 after accept, SendHello, the client's HELLO and the mode
\* notification; the vsync context enters SendMessage
InitFrame ==
    /\ InitFields /\ InitEmulator
    /\ client_fd_ = 1 /\ handshake_done_ = TRUE /\ mode_notified_ = TRUE
    /\ pc = [t \in Threads |-> IF t = "vs" THEN "s_check" ELSE "r_top"]
    /\ ret = [t \in Threads |-> IF t = "vs" THEN "v_idle" ELSE "none"]
    /\ mret = [t \in Threads |-> "none"]
    /\ \E a \in FrameArgs : sarg = [t \in Threads |-> IF t = "vs" THEN a ELSE NoArg]
    /\ full = FALSE
    /\ rmsg = [channel |-> CH_CONTROL, payload |-> Drop(ClientScript[1], 4)]
    /\ open_fds = {1} /\ backlog = 0 /\ nconn = 1
    /\ wire = [c \in Conns |->
                 IF c = 1
                 THEN ServedFrame(1, FALSE, HelloPayload)
                      \o ServedFrame(2, TRUE, ModeNotification(vga_mode, cols_, rows_))
                 ELSE << >>]
    /\ inq = [c \in Conns |-> << >>]
    /\ peer_closed = [c \in Conns |-> FALSE]
    /\ csent = [c \in Conns |-> IF c = 1 THEN 1 ELSE 0]
    /\ hello_proc = [c \in Conns |-> c = 1]
    /\ nsend = 2
    /\ tk = NoTick
    /\ lastfull = NoPass
    /\ sched = "free"

\* the writes the call under test has made
FrameWrites(c) == SelectSeq(wire[c], LAMBDA k : k.by = "vs")

\* once SendMessage has returned, the client of connection c sends back the
\* bytes the call has put on the wire
ClientEcho(c) ==
    /\ Quiet
    /\ pc["vs"] = "v_idle"
    /\ c \in open_fds
    /\ csent[c] = 1
    /\ csent' = [csent EXCEPT ![c] = 2]
    /\ inq' = [inq EXCEPT ![c] = @ \o WireBytes(FrameWrites(c))]
    /\ UNCHANGED <<sched, flagVars, objVars, inputVars, guestVars, open_fds, backlog, nconn,
                   peer_closed>>

\* one step of SendMessage, write() returning any of its results
FrameSendStep ==
    \/ SendCheck("vs")
    \/ SendLock("vs")
    \/ \E n \in WriteResults(4) : SendHeader("vs", n)
    \/ \E n \in WriteResults(sarg["vs"].len) : SendPayload("vs", n)

NextFrame == FrameSendStep \/ ClientEcho(1) \/ RPoll

SpecFrame == InitFrame /\ [][NextFrame]_vars

\* bytes is a concatenation of complete frames
RECURSIVE WholeFrames(_)
WholeFrames(bytes) ==
    \/ bytes = << >>
    \/ /\ Len(bytes) >= 4
       /\ Len(bytes) >= 4 + HeaderLen(Take(bytes, 4))
       /\ WholeFrames(Drop(bytes, 4 + HeaderLen(Take(bytes, 4))))

\* C2 (wire integrity): whenever no call holds the send lock, what has been
\* written to a connection that is still open is a concatenation of
\* complete frames.
C2_WireIntegrity ==
    \A c \in open_fds : send_mutex_ = "none" => WholeFrames(WireBytes(wire[c]))

\* the lengths the 24-bit field is tried on
FrameLens == {0, 1, 255, 256, 257, 65535, 65536, 65537, MAX_FRAME_LEN}

\* C3 (framing round trip): a call whose payload is longer than 0xFFFFFF
\* writes nothing; the bytes a call has written for (c, p), once all of
\* them are there for ReadMessage, decode to exactly (c, p); and the length
\* ReadMessage decodes from a header is the one SendMessage encoded.
C3_FramingRoundTrip ==
    /\ sarg["vs"].len > MAX_FRAME_LEN => FrameWrites(1) = << >>
    /\ (/\ csent[1] = 2
        /\ inq[1] = << >>
        /\ Len(WireBytes(FrameWrites(1))) = 4 + sarg["vs"].len)
       => /\ pc["rd"] = "r_dispatch"
          /\ rmsg = [channel |-> sarg["vs"].channel, payload |-> sarg["vs"].data]
    /\ \A c \in FrameChannels, l \in FrameLens :
          /\ FrameHeader(c, l)[1] = c
          /\ HeaderLen(FrameHeader(c, l)) = l

\* a frame of 257 payload bytes on channel 0xFF has made the round trip
C3_Witness ==
    /\ csent[1] = 2
    /\ pc["rd"] = "r_dispatch"
    /\ rmsg.channel = 255
    /\ rmsg.payload = FramePayload(257)
    /\ Len(WireBytes(FrameWrites(1))) = 261

(***************************************************************************)
(* SpecHello: the reader worker alone, serving one client that sends       *)
(* CONTROL/HELLO frames with the payloads of HelloPayloads.                *)
(***************************************************************************)
\* version, capability count N, capability bytes: shorter than 3 bytes, N
\* equal to, smaller and larger than the bytes present, known and unknown ids
HelloPayloads ==
    {<< >>, <<0, 1>>, <<0, 1, 0>>, <<0, 1, 1, 1>>, <<0, 1, 1, 16>>, <<0, 1, 1, 17>>,
     <<0, 1, 1, 33>>, <<0, 1, 1, 127>>, <<0, 1, 1, 2, 1>>, <<0, 1, 2, 127, 1>>,
     <<0, 1, 5, 18, 127>>, <<0, 1, 255, 32>>, <<0, 1, 3, 1, 16, 32>>, <<0, 1, 0, 1, 18, 33>>}

HelloFrames == {ClientFrame(CH_CONTROL, <<MSG_HELLO>> \o p) : p \in HelloPayloads}

HelloClientStep ==
    \/ ClientConnect(MaxSeqConn)
    \/ \E f \in HelloFrames : ClientSend(1, f)
    \/ ClientClose(1)

NextHello == ReaderStep \/ HelloClientStep

SpecHello == Init /\ [][NextHello]_vars

\* one of ids is among the first min(N, |p| - 3) capability bytes of the
\* HELLO payload p (p[1], p[2]: version; p[3]: N)
SeenAmongCaps(p, ids) ==
    \E i \in 1 .. Len(p) - 3 : i <= p[3] /\ p[3 + i] \in ids

\* the message the reader worker holds is a CONTROL/HELLO whose payload has
\* at least 3 bytes
HoldsHello ==
    /\ rmsg.channel = CH_CONTROL
    /\ Len(rmsg.payload) >= 4
    /\ rmsg.payload[1] = MSG_HELLO

\* what a step of the reader worker does with a HELLO
HelloStep ==
    /\ (pc["rd"] = "r_dispatch" /\ HoldsHello) => pc'["rd"] = "r_hello"
    /\ pc["rd"] = "r_hello" =>
          LET p == Tail(rmsg.payload)
          IN  /\ pc'["rd"] = "r_hsdone"
              /\ client_wants_text_' = SeenAmongCaps(p, {1})
              /\ client_wants_graphics_' = SeenAmongCaps(p, {16, 17, 18})
              /\ client_wants_audio_' = SeenAmongCaps(p, {32, 33})
    /\ pc["rd"] = "r_hsdone" => (handshake_done_' /\ UNCHANGED capVars)

\* C8 (capability parsing): a HELLO payload of at least 3 bytes always
\* reaches the capability loop, whatever its count and its ids; the loop
\* sets client_wants_text iff 0x01 is among the first min(N, length - 3)
\* capability bytes, client_wants_graphics iff 0x10, 0x11 or 0x12 is,
\* client_wants_audio iff 0x20 or 0x21 is; and handshake_done becomes true.
C8_CapabilityParsing == [][HelloStep]_vars

\* a HELLO announcing 5 capabilities and carrying 2, GRAPHICS_H264 and an
\* unknown id, has been processed
C8_Witness ==
    /\ pc["rd"] = "smn_check"
    /\ rmsg.payload = <<MSG_HELLO, 0, 1, 5, 18, 127>>
    /\ handshake_done_
    /\ client_wants_graphics_ /\ ~client_wants_text_ /\ ~client_wants_audio_

(***************************************************************************)
(* The shape of what a render pass emits                                   *)
(***************************************************************************)
\* s ends with t
EndsWith(s, t) ==
    Len(s) >= Len(t) /\ SubSeq(s, Len(s) - Len(t) + 1, Len(s)) = t

\* s begins with t
BeginsWith(s, t) == Len(s) >= Len(t) /\ SubSeq(s, 1, Len(t)) = t

\* the CR LF pairs in s
CountCRLF(s) == Cardinality({i \in 1 .. Len(s) - 1 : s[i] = 13 /\ s[i + 1] = 10})

\* ESC[?25l ESC[2J ESC[H ESC[0;37;40m
FullRedrawOpening ==
    <<27, 91, 63, 50, 53, 108, 27, 91, 50, 74, 27, 91, 72,
      27, 91, 48, 59, 51, 55, 59, 52, 48, 109>>

\* the opening and the line breaks of the last full-redraw pass
FullRedrawOpens ==
    lastfull.valid =>
        /\ BeginsWith(lastfull.out, FullRedrawOpening)
        /\ CountCRLF(lastfull.out) = lastfull.rows - 1

\* C11 (full-redraw frame shape): the payload of every full-redraw pass
\* begins with ESC[?25l ESC[2J ESC[H ESC[0;37;40m, contains exactly rows - 1
\* CR LF pairs and, when the snapshot cursor is visible, ends with ESC[?25h.
C11_FullRedrawShape ==
    /\ FullRedrawOpens
    /\ (lastfull.valid /\ lastfull.cursor.visible) =>
          EndsWith(lastfull.out, <<27, 91, 63, 50, 53, 104>>)

(***************************************************************************)
(* SpecRender: one render pass of a tick in an established text-mode       *)
(* session.  The text plane, the previous snapshot, force_redraw_, the     *)
(* last emitted attribute and prev_cursor_ are drawn from small sets; the  *)
(* tick snapshots, renders, sends and copies.                              *)
(***************************************************************************)
\* (character, attribute) of the cells the pass is tried on: blank, 'A',
\* 'A' white on blue, a space on blue
RenderCells == {<<32, 7>>, <<65, 7>>, <<65, 31>>, <<32, 31>>}

\* the same without the space on blue, for the previous snapshot
RenderPrevCells == {<<32, 7>>, <<65, 7>>, <<65, 31>>}

\* the text plane holding cells a, b, c at (0,0), (0,1), (1,0) of a
\* 2-column screen
RenderPlane(a, b, c) ==
    [o \in 0 .. 5 |-> <<a[1], a[2], b[1], b[2], c[1], c[2]>>[o + 1]]

InitRender ==
    /\ vga_mode = "M_TEXT"
    /\ crtc = [offset |-> 1, maximum_scan_line |-> 15, vertical_display_end |-> 399,
               cursor_location |-> 0, cursor_start |-> 0]
    /\ display_start = 0 /\ keybuf = << >> /\ gsteps = 0
    /\ \E a \in RenderCells, b \in RenderCells, c \in RenderCells :
          vmem = RenderPlane(a, b, c)
    /\ \E a \in RenderPrevCells, b \in RenderPrevCells, c \in RenderPrevCells :
          previous_ = SnapshotCells(ZeroGrid, RenderPlane(a, b, c), 0, 25, 2)
    /\ current_ = previous_
    /\ prev_cursor_ \in {TextCursor(0, 0, TRUE), TextCursor(0, 0, FALSE)}
    /\ cursor_ = prev_cursor_
    /\ force_redraw_ \in BOOLEAN
    /\ ansi_attr_ \in {ATTR_UNKNOWN, ATTR_DEFAULT, 31}
    /\ ansi_row_ = -1 /\ ansi_col_ = -1
    /\ client_fd_ = 1 /\ handshake_done_ = TRUE /\ mode_notified_ = TRUE
    /\ enabled_ = TRUE
    /\ client_wants_text_ = TRUE /\ client_wants_graphics_ = FALSE
    /\ client_wants_audio_ = FALSE
    /\ vsync_count_ = 1 /\ last_mode_ = "M_TEXT"
    /\ cols_ = 2 /\ rows_ = 25 /\ prev_cols_ = 2 /\ prev_rows_ = 25
    /\ text_buffer_ = << >>
    /\ input_state_ = "NORMAL" /\ csi_params_ = << >>
    /\ send_mutex_ = "none"
    /\ pc = [t \in Threads |-> IF t = "vs" THEN "v_snap" ELSE "r_top"]
    /\ ret = [t \in Threads |-> "none"]
    /\ mret = [t \in Threads |-> "none"]
    /\ sarg = [t \in Threads |-> NoArg]
    /\ full = FALSE
    /\ rmsg = [channel |-> CH_CONTROL, payload |-> Drop(ClientScript[1], 4)]
    /\ open_fds = {1} /\ backlog = 0 /\ nconn = 1
    /\ wire = [c \in Conns |->
                 IF c = 1
                 THEN ServedFrame(1, FALSE, HelloPayload)
                      \o ServedFrame(2, TRUE, ModeNotification("M_TEXT", 2, 25))
                 ELSE << >>]
    /\ inq = [c \in Conns |-> << >>]
    /\ peer_closed = [c \in Conns |-> FALSE]
    /\ csent = [c \in Conns |-> IF c = 1 THEN 1 ELSE 0]
    /\ hello_proc = [c \in Conns |-> c = 1]
    /\ nsend = 2
    /\ tk = [from |-> "M_TEXT", conn |-> 1, w0 |-> 4, changed |-> FALSE]
    /\ lastfull = NoPass
    /\ sched = "turns"

\* SendMessage for the pass's TEXT_OUT frame, every write() writing all
RenderSendStep ==
    \/ SendCheck("vs")
    \/ SendLock("vs")
    \/ SendHeader("vs", FullWrite(4))
    \/ SendPayload("vs", FullWrite(sarg["vs"].len))

NextRender == VSnap \/ VClear \/ VRender \/ RenderSendStep \/ VCopy

SpecRender == InitRender /\ [][NextRender]_vars

(***************************************************************************)
(* Reading a payload back: escape sequences, line breaks, characters       *)
(***************************************************************************)
\* the index of the final byte (0x40..0x7E) of the escape sequence that
\* begins s, searched from i on
RECURSIVE EscEnd(_, _)
EscEnd(s, i) ==
    IF i >= Len(s) \/ (s[i] >= 64 /\ s[i] <= 126) THEN i ELSE EscEnd(s, i + 1)

\* the payload s as tokens: "sgr" (ESC[...m), "esc" (any other sequence),
\* "nl" (CR or LF), "chr" (a character byte)
RECURSIVE Tokens(_)
Tokens(s) ==
    IF s = << >> THEN << >>
    ELSE IF s[1] = 27
         THEN LET n == EscEnd(s, 3)
              IN  <<[k |-> IF s[n] = 109 THEN "sgr" ELSE "esc", b |-> SubSeq(s, 1, n)]>>
                      \o Tokens(Drop(s, n))
         ELSE <<[k |-> IF s[1] \in {13, 10} THEN "nl" ELSE "chr", b |-> <<s[1]>>]>>
                  \o Tokens(Tail(s))

\* ESC[0;37;40m
SgrDefault == <<27, 91, 48, 59, 51, 55, 59, 52, 48, 109>>

\* walks the tokens from i on.  inforce: the SGR in force (<< >>: the one
\* the pass began with); lastcell: the SGR the last character was emitted
\* under (<<0>>: no character yet); sgr, nl: an SGR, a line break has been
\* seen since that character.  rowsExcuse: a line break between two
\* characters of a non-default attribute excuses an SGR between them.
RECURSIVE StickyFrom(_, _, _, _, _, _, _)
StickyFrom(toks, i, inforce, lastcell, sgr, nl, rowsExcuse) ==
    IF i > Len(toks) THEN TRUE
    ELSE CASE toks[i].k = "sgr" ->
                 StickyFrom(toks, i + 1, toks[i].b, lastcell, TRUE, nl, rowsExcuse)
           [] toks[i].k = "nl" ->
                 StickyFrom(toks, i + 1, inforce, lastcell, sgr, TRUE, rowsExcuse)
           [] toks[i].k = "chr" ->
                 /\ (/\ lastcell = inforce
                     /\ ~(rowsExcuse /\ nl /\ inforce # SgrDefault)) => ~sgr
                 /\ StickyFrom(toks, i + 1, inforce, inforce, FALSE, FALSE, rowsExcuse)
           [] OTHER ->
                 StickyFrom(toks, i + 1, inforce, lastcell, sgr, nl, rowsExcuse)

\* C12 (attribute stickiness), as stated: in the payload of every pass,
\* between two successive characters emitted under the same attribute
\* there is no SGR sequence, also when they are on different rows.
C12_AttributeStickiness ==
    StickyFrom(Tokens(text_buffer_), 1, << >>, <<0>>, FALSE, FALSE, FALSE)

\* C12, amended: between two successive characters emitted under the same
\* attribute there is no SGR sequence, unless the attribute is not 0x07 and
\* a line break of a full redraw lies between them.
C12_StickyWithinRows ==
    StickyFrom(Tokens(text_buffer_), 1, << >>, <<0>>, FALSE, FALSE, TRUE)

\* a full redraw has emitted three 'A' white on blue: two side by side on
\* row 0 and one on row 1
C12_Witness ==
    /\ pc["vs"] = "v_copy" /\ full
    /\ CellAt(current_, 0, 0) = TextCell(65, 31)
    /\ CellAt(current_, 0, 1) = TextCell(65, 31)
    /\ CellAt(current_, 1, 0) = TextCell(65, 31)
    /\ Len(SelectSeq(Tokens(text_buffer_), LAMBDA t : t.k = "chr")) = 3

(***************************************************************************)
(* The differential emission rule, cell by cell                            *)
(***************************************************************************)
\* ESC[<r+1>;<c+1>H
MoveBytes(r, c) == EmitMoveCursor(Emitter(<< >>, 0, 0, 0), r, c).buf

\* the SGR sequence of attribute a
SgrBytes(a) == EmitSetAttribute(Emitter(<< >>, 0, 0, 0), a).buf

\* the character bytes of CP437 byte ch
CharBytes(ch) == Utf8(cp437_to_unicode[ch + 1])

\* the bytes of the cells numbered k and up in row-major order (cell k is
\* at row k \div cols, column k % cols); last is the number of the changed
\* cell emitted before (-2: none), attr the attribute last emitted
RECURSIVE ChangedCellBytes(_, _, _, _, _, _, _)
ChangedCellBytes(cur, prev, rows, cols, k, last, attr) ==
    IF k >= rows * cols THEN << >>
    ELSE LET r == k \div cols
             c == k % cols
             cell == CellAt(cur, r, c)
         IN  IF cell = CellAt(prev, r, c)
             THEN ChangedCellBytes(cur, prev, rows, cols, k + 1, last, attr)
             ELSE (IF k # last + 1 THEN MoveBytes(r, c) ELSE << >>)
                  \o (IF cell.attribute # attr THEN SgrBytes(cell.attribute) ELSE << >>)
                  \o CharBytes(cell.character)
                  \o ChangedCellBytes(cur, prev, rows, cols, k + 1, k, cell.attribute)

\* what the step of a differential pass that renders must leave in
\* text_buffer_: the bytes of the changed cells, then those of the cursor
DiffRenderStep ==
    (pc["vs"] = "v_render" /\ ~full) =>
        text_buffer_' =
            ChangedCellBytes(current_, previous_, rows_, cols_, 0, -2, ansi_attr_)
            \o CursorHandling(Emitter(<< >>, 0, 0, 0), cursor_, prev_cursor_).buf

\* C13 (differential emission rule): a differential pass emits, for the
\* changed cells in row-major order, a move iff the cell does not
\* immediately follow the changed cell emitted before it (wrapping to the
\* next row at cols), an SGR iff its attribute differs from the last
\* emitted one, then its character; unchanged cells emit nothing.
C13_DiffEmission == [][DiffRenderStep]_vars

\* a differential pass that found only (0,1) changed, from a blank to 'A'
\* white on blue, has emitted ESC[1;2H ESC[0;97;44m 'A'
C13_Witness ==
    /\ pc["vs"] = "v_copy" /\ ~full
    /\ text_buffer_ = <<27, 91, 49, 59, 50, 72, 27, 91, 48, 59, 57, 55, 59, 52, 52, 109, 65>>

\* a differential pass has emitted (0,1) and (1,0), the second without a
\* move: ESC[1;2H 'A' 'A'
C13_WrapWitness ==
    /\ pc["vs"] = "v_copy" /\ ~full
    /\ text_buffer_ = <<27, 91, 49, 59, 50, 72, 65, 65>>

(***************************************************************************)
(* SpecKeys: the reader worker alone, in an established session.  The      *)
(* client has sent a script of KEYBOARD_IN frames, which the worker reads  *)
(* and runs through the tokenizer one frame at a time.                     *)
(***************************************************************************)
\* the longest script, in frames
MaxKeyFrames == 8

\* what a client may send before an escape sequence: nothing, a key, a
\* whole CSI sequence, and CSI sequences cut short by a byte outside
\* 0x30..0x7E (0x01, ESC, 0x7F, 0x80), with and without parameter bytes
KeyPrefixes ==
    {<< >>, <<65>>, <<27, 91, 50, 126>>, <<27, 91, 49, 1>>, <<27, 91, 49, 50, 27>>,
     <<27, 91, 49, 127>>, <<27, 91, 128>>}

\* escape sequences that end in a dispatch: ESC + byte, CSI, SS3
KeyEscapes ==
    {<<27, 65>>, <<27, 97>>, <<27, 27>>, <<27, 91, 65>>, <<27, 91, 49, 126>>,
     <<27, 91, 49, 120>>, <<27, 79, 65>>, <<27, 79, 80>>, <<27, 79, 120>>}

\* parameter strings of a CSI sequence: none, the numbers 0..25, a number
\* with a leading zero, three digits, two parameters, a private marker
KeyParams ==
    {<< >>, <<48, 50, 48>>, <<50, 48, 48>>, <<49, 59, 53>>, <<63, 49>>}
        \cup {DecStr(n) : n \in 0 .. 25}

\* s, one byte per frame
OneByOne(s) == [i \in 1 .. Len(s) |-> <<s[i]>>]

\* the payloads of the frames the client has sent, in order
KeyScripts ==
    {OneByOne(p \o e) : p \in KeyPrefixes, e \in KeyEscapes}
        \cup {<<<<27, 91>> \o p \o <<f>>>> : p \in KeyParams, f \in 64 .. 126}
        \cup {<<<<27, 91, 49>>, <<1>>, <<27, 91>> \o p \o <<126>>>> : p \in KeyParams}
        \cup {<<<<b>>>> : b \in 0 .. 255}

RECURSIVE KeyFrames(_)
KeyFrames(script) ==
    IF script = << >> THEN << >>
    ELSE ClientFrame(CH_KEYBOARD_IN, Head(script)) \o KeyFrames(Tail(script))

\* connection 1 after the handshake; the client's keyboard frames are unread
InitKeys ==
    /\ InitFields /\ InitEmulator
    /\ client_fd_ = 1 /\ handshake_done_ = TRUE /\ mode_notified_ = TRUE
    /\ pc = [t \in Threads |-> IF t = "vs" THEN "v_idle" ELSE "r_top"]
    /\ ret = [t \in Threads |-> "none"]
    /\ mret = [t \in Threads |-> "none"]
    /\ sarg = [t \in Threads |-> NoArg]
    /\ full = FALSE
    /\ rmsg = [channel |-> CH_CONTROL, payload |-> Drop(ClientScript[1], 4)]
    /\ open_fds = {1} /\ backlog = 0 /\ nconn = 1
    /\ wire = [c \in Conns |->
                 IF c = 1
                 THEN ServedFrame(1, FALSE, HelloPayload)
                      \o ServedFrame(2, TRUE, ModeNotification(vga_mode, cols_, rows_))
                 ELSE << >>]
    /\ \E script \in KeyScripts :
          /\ Len(script) <= MaxKeyFrames
          /\ inq = [c \in Conns |-> IF c = 1 THEN KeyFrames(script) ELSE << >>]
          /\ csent = [c \in Conns |-> IF c = 1 THEN 1 + Len(script) ELSE 0]
    /\ peer_closed = [c \in Conns |-> FALSE]
    /\ hello_proc = [c \in Conns |-> c = 1]
    /\ nsend = 2
    /\ tk = NoTick
    /\ lastfull = NoPass
    /\ sched = "free"

NextKeys == RPoll \/ RDispatch

SpecKeys == InitKeys /\ [][NextKeys]_vars

\* ProcessMessage is about to hand a keyboard payload to HandleKeyboardInput
KeyboardArrives == pc["rd"] = "r_dispatch" /\ rmsg.channel = CH_KEYBOARD_IN

\* ... a payload of the single byte b
ByteArrives(b) == KeyboardArrives /\ rmsg.payload = <<b>>

\* the byte about to be processed ends an escape sequence with a dispatch:
\* ESC + byte, a CSI final byte, SS3 + byte
EscapeDispatch ==
    \E b \in 0 .. 255 :
        /\ ByteArrives(b)
        /\ \/ input_state_ = "ESC" /\ b \notin {91, 79}
           \/ input_state_ = "CSI" /\ b \in 64 .. 126
           \/ input_state_ = "SS3"

\* C14 (part): the step that dispatches an escape sequence leaves the
\* tokenizer in NORMAL
C14_StateReset == [][EscapeDispatch => input_state_' = "NORMAL"]_vars

\* C14: whatever was fed before, the step that dispatches an escape sequence
\* (ESC + byte, CSI with a final byte, SS3 + byte) leaves the tokenizer in
\* NORMAL with an empty CSI parameter buffer
C14_ParserReset ==
    [][EscapeDispatch => (input_state_' = "NORMAL" /\ csi_params_' = << >>)]_vars

\* an SS3 or ESC + byte dispatch has happened while the parameters of an
\* earlier, aborted CSI sequence are still held
C14_StaleParams ==
    /\ pc["rd"] = "r_top" /\ input_state_ = "NORMAL"
    /\ csi_params_ # << >>
    /\ keybuf # << >>

\* the keycodes the claim lists for the final byte of a CSI sequence whose
\* numeric parameter is n: one keycode, or none
CsiKeycodes(n, final) ==
    CASE final = 65 -> <<18432>>               \* 'A' 0x4800
      [] final = 66 -> <<20480>>               \* 'B' 0x5000
      [] final = 67 -> <<19712>>               \* 'C' 0x4D00
      [] final = 68 -> <<19200>>               \* 'D' 0x4B00
      [] final = 72 -> <<18176>>               \* 'H' 0x4700
      [] final = 70 -> <<20224>>               \* 'F' 0x4F00
      [] final = 126 ->
            CASE n = 1 -> <<18176>> [] n = 2 -> <<20992>> [] n = 3 -> <<21248>>
              [] n = 4 -> <<20224>> [] n = 5 -> <<18688>> [] n = 6 -> <<20736>>
              [] n \in 11 .. 15 -> <<(59 + (n - 11)) * 256>>
              [] n \in 17 .. 21 -> <<(64 + (n - 17)) * 256>>
              [] n = 23 -> <<34048>> [] n = 24 -> <<34304>>
              [] OTHER -> << >>
      [] OTHER -> << >>

\* the payload is ESC [, parameter bytes, a final byte
IsCsiSequence(s) ==
    /\ Len(s) >= 3 /\ s[1] = 27 /\ s[2] = 91
    /\ \A i \in 3 .. Len(s) - 1 : s[i] \in 48 .. 63
    /\ s[Len(s)] \in 64 .. 126

CsiSequenceStep ==
    (KeyboardArrives /\ input_state_ = "NORMAL" /\ IsCsiSequence(rmsg.payload)) =>
        LET s == rmsg.payload
        IN  /\ keybuf' = keybuf \o CsiKeycodes(Atoi(SubSeq(s, 3, Len(s) - 1)), s[Len(s)])
            /\ input_state_' = "NORMAL"

\* C15: from NORMAL, ESC [ params final injects exactly one keycode,
\* scancode << 8, when the final byte is A/B/C/D/H/F or is ~ with a numeric
\* parameter of the table (20 -> 0x4300), and none for any other final byte
\* or parameter
C15_CsiDispatch == [][CsiSequenceStep]_vars

\* ESC [ 2 0 ~ has been read and F9 (0x4300) is the one key injected
C15_Witness ==
    /\ pc["rd"] = "r_top" /\ inq[1] = << >>
    /\ rmsg.payload = <<27, 91, 50, 48, 126>>
    /\ keybuf = <<17152>>

\* ESC [ 1 6 ~ has been read and nothing was injected
C15_NoneWitness ==
    /\ pc["rd"] = "r_top" /\ inq[1] = << >>
    /\ rmsg.payload = <<27, 91, 49, 54, 126>>
    /\ keybuf = << >>

NormalByteStep ==
    \A b \in 0 .. 255 :
        (ByteArrives(b) /\ input_state_ = "NORMAL") =>
            /\ (b \in (1 .. 26) \ {8, 9, 13}) =>
                  /\ keybuf' = Append(keybuf, ascii_scancode[(97 + b - 1) + 1] * 256 + b)
                  /\ input_state_' = "NORMAL"
            /\ (b \in 32 .. 126) =>
                  /\ keybuf' = Append(keybuf, ascii_scancode[b + 1] * 256 + b)
                  /\ input_state_' = "NORMAL"
            /\ (b = 1) => keybuf' = Append(keybuf, 7681)

\* C16: in NORMAL, a byte b of 0x01..0x1A other than 0x08, 0x09, 0x0D
\* injects (ascii_scancode['a' + b - 1] << 8) | b (0x01 -> 0x1E01), a byte of
\* 0x20..0x7E injects (ascii_scancode[b] << 8) | b, and the tokenizer stays
\* in NORMAL
C16_NormalMapping == [][NormalByteStep]_vars

\* Ctrl-A has been read: 0x1E01 is in the keyboard buffer
C16_Witness ==
    /\ pc["rd"] = "r_top" /\ inq[1] = << >>
    /\ rmsg.payload = <<1>>
    /\ keybuf = <<7681>> /\ input_state_ = "NORMAL"

\* 'A' has been read: 0x1E41 is in the keyboard buffer
C16_PrintableWitness ==
    /\ pc["rd"] = "r_top" /\ inq[1] = << >>
    /\ rmsg.payload = <<65>>
    /\ keybuf = <<7745>> /\ input_state_ = "NORMAL"

(***************************************************************************)
(* SpecDims: the first text tick of an established session, from the       *)
(* dimension computation of SnapshotTextBuffer to the end of its cell      *)
(* loop, for CRTC registers drawn from their ranges.                       *)
(***************************************************************************)
\* vga.crtc.offset (8 bits): 0 -> 80 columns, 66 -> 132, above -> clamped
DimOffsets == {0, 1, 40, 66, 67, 255}

\* vga.crtc.maximum_scan_line (8 bits, the low 5 count)
DimScanLines == {0, 7, 15, 31, 32, 255}

\* vga.crtc.vertical_display_end: with 8 scan lines a row, 183 -> 23 rows,
\* 191 -> 24, 479 -> 60, 487 -> 61
DimDisplayEnds == {0, 183, 191, 199, 399, 479, 487, 1023, 2047}

\* the TextCell arrays: current_[TEXTSTREAM_MAX_ROWS][TEXTSTREAM_MAX_COLS]
GridCells == (0 .. TEXTSTREAM_MAX_ROWS - 1) \X (0 .. TEXTSTREAM_MAX_COLS - 1)

\* connection 1 after the handshake; OnVSync has passed its gate and the
\* mode test and enters the text branch for the first time
InitDims ==
    /\ InitFields
    /\ vga_mode = "M_TEXT"
    /\ \E o \in DimOffsets, m \in DimScanLines, v \in DimDisplayEnds :
          crtc = [offset |-> o, maximum_scan_line |-> m, vertical_display_end |-> v,
                  cursor_location |-> 0, cursor_start |-> 0]
    /\ display_start = 0
    /\ vmem = [o \in {} |-> 0]
    /\ keybuf = << >>
    /\ gsteps = 0
    /\ client_fd_ = 1 /\ handshake_done_ = TRUE /\ mode_notified_ = TRUE
    /\ pc = [t \in Threads |-> IF t = "vs" THEN "v_text" ELSE "r_top"]
    /\ ret = [t \in Threads |-> "none"]
    /\ mret = [t \in Threads |-> "none"]
    /\ sarg = [t \in Threads |-> NoArg]
    /\ full = FALSE
    /\ rmsg = [channel |-> CH_CONTROL, payload |-> Drop(ClientScript[1], 4)]
    /\ open_fds = {1} /\ backlog = 0 /\ nconn = 1
    /\ wire = [c \in Conns |->
                 IF c = 1
                 THEN ServedFrame(1, FALSE, HelloPayload)
                      \o ServedFrame(2, TRUE, ModeNotification(vga_mode, cols_, rows_))
                 ELSE << >>]
    /\ inq = [c \in Conns |-> << >>]
    /\ peer_closed = [c \in Conns |-> FALSE]
    /\ csent = [c \in Conns |-> IF c = 1 THEN 1 ELSE 0]
    /\ hello_proc = [c \in Conns |-> c = 1]
    /\ nsend = 2
    /\ tk = [from |-> "M_ERROR", conn |-> 1, w0 |-> 4, changed |-> TRUE]
    /\ lastfull = NoPass
    /\ sched = "turns"

NextDims == VText \/ CallStep("vs") \/ VSnap

SpecDims == InitDims /\ [][NextDims]_vars

\* C17: whatever the offset, maximum-scan-line and vertical-display-end
\* registers hold, SnapshotTextBuffer leaves 1 <= cols_ <= 132 and
\* 24 <= rows_ <= 60, and every cell it writes is a cell of the 60 x 132 grid
C17_DimensionClamp ==
    /\ 1 <= cols_ /\ cols_ <= 132
    /\ 24 <= rows_ /\ rows_ <= 60
    /\ DOMAIN current_ \subseteq GridCells

\* the cell loop has run with both dimensions clamped from above
C17_Witness ==
    /\ pc["vs"] = "v_clear"
    /\ crtc.offset = 255 /\ crtc.vertical_display_end = 2047
    /\ cols_ = 132 /\ rows_ = 60
    /\ <<59, 131>> \in DOMAIN current_

\* the cell loop has run with a row count below 24 replaced by 25
C17_LowWitness ==
    /\ pc["vs"] = "v_clear"
    /\ crtc.maximum_scan_line = 7 /\ crtc.vertical_display_end = 183
    /\ rows_ = 25
    /\ <<24, 0>> \in DOMAIN current_

(***************************************************************************)
(* SpecRecover: clients that come and go.  The reader worker and the       *)
(* vsync context interleave step by step and both keep running: the        *)
(* worker's loop runs as long as running_ holds, and the emulator runs     *)
(* every OnVSync call it starts to its end.                                *)
(***************************************************************************)
\* connection 1 after accept, SendHello, the client's HELLO and the mode
\* notification; both executors rest; prev_cursor_ holds one of the values
\* it can start with
InitRecover ==
    /\ InitFields /\ InitEmulator /\ InitLocals
    /\ prev_cursor_ = TextCursor(0, 0, TRUE)
    /\ client_fd_ = 1 /\ handshake_done_ = TRUE /\ mode_notified_ = TRUE
    /\ open_fds = {1} /\ backlog = 0 /\ nconn = 1
    /\ wire = [c \in Conns |->
                 IF c = 1
                 THEN ServedFrame(1, FALSE, HelloPayload)
                      \o ServedFrame(2, TRUE, ModeNotification(vga_mode, cols_, rows_))
                 ELSE << >>]
    /\ inq = [c \in Conns |-> << >>]
    /\ peer_closed = [c \in Conns |-> FALSE]
    /\ csent = [c \in Conns |-> IF c = 1 THEN 1 ELSE 0]
    /\ hello_proc = [c \in Conns |-> c = 1]
    /\ nsend = 2
    /\ tk = NoTick
    /\ lastfull = NoPass
    /\ sched = "free"

\* ticks that pass the gate of OnVSync while clients come and go
MaxRecoverTicks == 1

\* the connections whose client leaves; the client of the last one stays
Leavers == 1 .. MaxConn - 1

\* one step of OnVSync
RecoverVSyncStep ==
    \/ VGate(MaxRecoverTicks)
    \/ VForce
    \/ VText
    \/ VSnap
    \/ VClear
    \/ VRender
    \/ VCopy
    \/ CallStep("vs")

\* a client connects, says GOODBYE, or closes its end
RecoverClientStep ==
    \/ ClientConnect(MaxConn)
    \/ \E c \in Leavers : ClientSend(c, ClientGoodbye)
    \/ \E c \in Leavers : ClientClose(c)

\* the steps of InputThreadFunc that serve a client that sends no HELLO
RecoverReaderStep ==
    \/ RAccept
    \/ RAccepted
    \/ RInvalidate
    \/ RInvalidate2
    \/ RPoll
    \/ RDispatch
    \/ RClose
    \/ RForget
    \/ RReset
    \/ SendCheck("rd")
    \/ SendLock("rd")
    \/ SendHeader("rd", FullWrite(4))
    \/ SendPayload("rd", FullWrite(sarg["rd"].len))

NextRecover == RecoverVSyncStep \/ RecoverReaderStep \/ SetEnabled \/ RecoverClientStep

SpecRecover ==
    /\ InitRecover
    /\ [][NextRecover]_vars
    /\ WF_vars(RecoverReaderStep)
    /\ WF_vars(RecoverVSyncStep)

\* the client of connection c has gone: it has closed its end, or the last
\* frame it sent is a GOODBYE
ClientGone(c) ==
    /\ c \in open_fds
    /\ peer_closed[c] \/ EndsWith(inq[c], ClientGoodbye)

\* the worker has closed the descriptor of connection c and reset the session
TornDown(c) == c \notin open_fds /\ client_fd_ # c /\ ~handshake_done_

\* a client waits in the listener's queue to become connection c after
\* connection c - 1 has been closed
ConnectsAfter(c) ==
    /\ c > 1 /\ nconn = c - 1 /\ backlog > 0
    /\ (c - 1) \notin open_fds

\* connection c is accepted and the server's HELLO frame is the first the
\* worker has written on it
SentHello(c) ==
    /\ nconn >= c
    /\ BeginsWith(WireBytes(SelectSeq(wire[c], LAMBDA k : k.by = "rd")),
                  FrameHeader(CH_CONTROL, Len(HelloPayload)) \o HelloPayload)

\* C18: when the peer closes the connection or sends GOODBYE, the worker
\* eventually closes the client descriptor and resets handshake_done_, and a
\* client that connects afterwards is eventually accepted and sent the
\* server's HELLO
C18_DisconnectRecovery ==
    /\ \A c \in Leavers : ClientGone(c) ~> TornDown(c)
    /\ \A c \in Conns \ {1} : ConnectsAfter(c) ~> SentHello(c)

\* the first client closed its end after the handshake, its connection was
\* torn down, and the second client has the server's HELLO
C18_Witness ==
    /\ peer_closed[1] /\ csent[1] = 1
    /\ TornDown(1)
    /\ SentHello(2)

\* the same after a GOODBYE of the first client
C18_GoodbyeWitness ==
    /\ ~peer_closed[1] /\ csent[1] = 2
    /\ TornDown(1)
    /\ SentHello(2)

(***************************************************************************)
(* SpecIgnore: the reader worker alone, before or after the handshake.     *)
(* The client has sent frames the server has no use for, some after a      *)
(* keyboard frame that stops in the middle of a CSI sequence.              *)
(***************************************************************************)
\* the bytes that fill the payloads
IgnoredFill == <<1, 0, 1>>

\* control payloads without effect: none, HELLO with 0..2 bytes after the
\* type, RESIZE with 0..3, and types the switch has no case for
IgnoredControls ==
    {<< >>}
        \cup {<<MSG_HELLO>> \o SubSeq(IgnoredFill, 1, n) : n \in 0 .. 2}
        \cup {<<MSG_RESIZE>> \o SubSeq(IgnoredFill, 1, n) : n \in 0 .. 3}
        \cup {<<t>> \o SubSeq(IgnoredFill, 1, n) :
                 t \in {0, MSG_MODE_TEXT, MSG_MODE_UNSUPPORTED, 48, 255}, n \in {0, 3}}

\* channels ProcessMessage has no case for: TEXT_OUT, GFX_RAW, AUDIO_OPUS, 0xFF
UnknownChannels == {CH_TEXT_OUT, 64, 81, 255}

\* payloads sent on those channels and on MOUSE_IN: none, a HELLO, a
\* GOODBYE, a REFRESH, ESC [ A
StrayPayloads ==
    {<< >>, <<MSG_HELLO, 0, 1, 1, CAP_TEXT_OUTPUT>>, <<MSG_GOODBYE>>, <<MSG_REFRESH>>,
     <<27, 91, 65>>}

IgnoredFrames ==
    {ClientFrame(CH_CONTROL, p) : p \in IgnoredControls}
        \cup {ClientFrame(ch, p) : ch \in UnknownChannels \cup {CH_MOUSE_IN}, p \in StrayPayloads}

\* what the client has sent: one or two such frames, or ESC [ 1 on the
\* keyboard channel and then one
IgnoredScripts ==
    IgnoredFrames
        \cup {f \o g : f \in IgnoredFrames, g \in IgnoredFrames}
        \cup {ClientFrame(CH_KEYBOARD_IN, <<27, 91, 49>>) \o f : f \in IgnoredFrames}

\* connection 1 after accept and SendHello, before or after the client's
\* HELLO; what the client has sent since is unread
InitIgnore ==
    /\ InitFields /\ InitEmulator /\ InitLocals
    /\ client_fd_ = 1
    /\ \E hs \in BOOLEAN :
          /\ handshake_done_ = hs /\ mode_notified_ = hs
          /\ hello_proc = [c \in Conns |-> c = 1 /\ hs]
          /\ csent = [c \in Conns |-> IF c = 1 /\ hs THEN 1 ELSE 0]
          /\ nsend = IF hs THEN 2 ELSE 1
          /\ wire = [c \in Conns |->
                       IF c = 1
                       THEN ServedFrame(1, FALSE, HelloPayload)
                            \o (IF hs
                                THEN ServedFrame(2, TRUE,
                                                 ModeNotification(vga_mode, cols_, rows_))
                                ELSE << >>)
                       ELSE << >>]
    /\ open_fds = {1} /\ backlog = 0 /\ nconn = 1
    /\ \E script \in IgnoredScripts : inq = [c \in Conns |-> IF c = 1 THEN script ELSE << >>]
    /\ peer_closed = [c \in Conns |-> FALSE]
    /\ tk = NoTick
    /\ lastfull = NoPass
    /\ sched = "free"

NextIgnore == RPoll \/ RDispatch

SpecIgnore == InitIgnore /\ [][NextIgnore]_vars

\* the messages the claim lists
IgnoredMessage(m) ==
    \/ /\ m.channel = CH_CONTROL
       /\ \/ m.payload = << >>
          \/ Head(m.payload) = MSG_HELLO /\ Len(Tail(m.payload)) < 3
          \/ Head(m.payload) = MSG_RESIZE /\ Len(Tail(m.payload)) < 4
          \/ Head(m.payload) \notin {MSG_HELLO, MSG_GOODBYE, MSG_REFRESH, MSG_RESIZE}
    \/ m.channel = CH_MOUSE_IN
    \/ m.channel \notin {CH_CONTROL, CH_KEYBOARD_IN, CH_MOUSE_IN}

\* the worker processes rmsg
ProcessesMessage == pc["rd"] = "r_dispatch" /\ pc'["rd"] # "r_dispatch"

IgnoreStep ==
    (ProcessesMessage /\ IgnoredMessage(rmsg)) =>
        /\ pc'["rd"] = "r_top"
        /\ UNCHANGED <<client_fd_, open_fds, handshake_done_, capVars, force_redraw_>>
        /\ UNCHANGED <<dimVars, gridVars, ansiVars, text_buffer_>>
        /\ UNCHANGED <<input_state_, csi_params_, keybuf>>
        /\ UNCHANGED <<wire, nsend, sarg>>

\* C19: processing a HELLO with fewer than 3 payload bytes, a RESIZE with
\* fewer than 4, an empty CONTROL payload, an unknown control type, a frame
\* on an unknown channel or any MOUSE_IN frame leaves the client connected,
\* leaves handshake_done_, the capability flags, force_redraw_, the render
\* state and the tokenizer state as they were, and sends no frame
C19_IgnoredInput == [][IgnoreStep]_vars

\* a two-byte HELLO has been processed in the middle of a CSI sequence,
\* before the handshake
C19_Witness ==
    /\ pc["rd"] = "r_top" /\ inq[1] = << >>
    /\ rmsg = [channel |-> CH_CONTROL, payload |-> <<MSG_HELLO, 1, 0>>]
    /\ ~handshake_done_
    /\ input_state_ = "CSI" /\ csi_params_ = <<49>>

\* a MOUSE_IN frame that carries a GOODBYE has been processed after the
\* handshake and the client is still connected
C19_MouseWitness ==
    /\ pc["rd"] = "r_top" /\ inq[1] = << >>
    /\ rmsg = [channel |-> CH_MOUSE_IN, payload |-> <<MSG_GOODBYE>>]
    /\ handshake_done_ /\ client_fd_ = 1 /\ 1 \in open_fds

(***************************************************************************)
(* SpecRefresh: an established text session after its first, full render   *)
(* pass.  The client asks for a REFRESH; the reader worker and the vsync   *)
(* context interleave step by step.  lastfull starts anew: it records the  *)
(* full passes from here on.                                               *)
(***************************************************************************)
\* OnVSync passes its gate while vsync_count_ is below this: two more ticks
MaxRefreshTicks == 3

\* the blank 2 x 25 screen and what the first pass made of it
FirstPassGrid == SnapshotCells(ZeroGrid, [o \in {} |-> 0], 0, 25, 2)

FirstPass ==
    RenderPass(TRUE, FirstPassGrid, ZeroGrid, 25, 2, TextCursor(0, 0, TRUE),
               TextCursor(0, 0, FALSE), ATTR_UNKNOWN, -1, -1)

\* the writes of the first pass's TEXT_OUT frame
FirstPassFrame ==
    LET k == [fid |-> 3, by |-> "vs", ch |-> CH_TEXT_OUT, part |-> "hdr",
              bytes |-> FrameHeader(CH_TEXT_OUT, Len(FirstPass.buf)), hs |-> TRUE,
              mode |-> "M_TEXT", gate |-> 1]
    IN  <<k, [k EXCEPT !.part = "pay", !.bytes = FirstPass.buf]>>

InitRefresh ==
    /\ InitEmulator /\ InitLocals
    /\ client_fd_ = 1 /\ handshake_done_ = TRUE /\ mode_notified_ = TRUE
    /\ enabled_ = TRUE /\ force_redraw_ = FALSE
    /\ client_wants_text_ = TRUE /\ client_wants_graphics_ = FALSE
    /\ client_wants_audio_ = FALSE
    /\ vsync_count_ = 1 /\ last_mode_ = "M_TEXT"
    /\ cols_ = 2 /\ rows_ = 25 /\ prev_cols_ = 2 /\ prev_rows_ = 25
    /\ current_ = FirstPassGrid /\ previous_ = FirstPassGrid
    /\ cursor_ = TextCursor(0, 0, TRUE) /\ prev_cursor_ = cursor_
    /\ ansi_attr_ = FirstPass.attr /\ ansi_row_ = FirstPass.row /\ ansi_col_ = FirstPass.col
    /\ text_buffer_ = FirstPass.buf
    /\ input_state_ = "NORMAL" /\ csi_params_ = << >>
    /\ send_mutex_ = "none"
    /\ open_fds = {1} /\ backlog = 0 /\ nconn = 1
    /\ wire = [c \in Conns |->
                 IF c = 1
                 THEN ServedFrame(1, FALSE, HelloPayload)
                      \o ServedFrame(2, TRUE, ModeNotification("M_TEXT", 2, 25))
                      \o FirstPassFrame
                 ELSE << >>]
    /\ inq = [c \in Conns |-> << >>]
    /\ peer_closed = [c \in Conns |-> FALSE]
    /\ csent = [c \in Conns |-> IF c = 1 THEN 1 ELSE 0]
    /\ hello_proc = [c \in Conns |-> c = 1]
    /\ nsend = 3
    /\ tk = [from |-> "M_ERROR", conn |-> 1, w0 |-> 2, changed |-> TRUE]
    /\ lastfull = NoPass
    /\ sched = "free"

\* one step of OnVSync in a session whose mode and dimensions stay
RefreshVSyncStep ==
    \/ VGate(MaxRefreshTicks)
    \/ VText
    \/ VSnap
    \/ VClear
    \/ VRender
    \/ VCopy
    \/ SendCheck("vs")
    \/ SendLock("vs")
    \/ SendHeader("vs", FullWrite(4))
    \/ SendPayload("vs", FullWrite(sarg["vs"].len))

\* one step of InputThreadFunc on a REFRESH
RefreshReaderStep ==
    \/ RPoll
    \/ RDispatch
    \/ RInvalidate
    \/ RInvalidate2

NextRefresh == RefreshVSyncStep \/ RefreshReaderStep \/ ClientSend(1, ClientRefresh)

SpecRefresh == InitRefresh /\ [][NextRefresh]_vars

\* the worker has processed the client's REFRESH, Invalidate() included, and
\* no full pass has been rendered since
RefreshOwed ==
    /\ pc["rd"] = "r_top" /\ inq[1] = << >>
    /\ rmsg = [channel |-> CH_CONTROL, payload |-> <<MSG_REFRESH>>]
    /\ ~lastfull.valid

\* GenerateTextOutput starts: bool full = force_redraw_;
PassStarts == pc["vs"] = "v_snap" /\ pc'["vs"] = "v_clear"

\* C20: once the worker has processed a REFRESH, the first render pass that
\* starts afterwards is a full redraw, however Invalidate() interleaves with
\* a running GenerateTextOutput
C20_RefreshNotLost == [][(RefreshOwed /\ PassStarts) => full']_vars

\* the REFRESH was processed, no full pass followed, and a pass that started
\* afterwards is differential
C20_LostRefresh ==
    /\ RefreshOwed
    /\ pc["vs"] = "v_render" /\ vsync_count_ = MaxRefreshTicks
    /\ ~full /\ ~force_redraw_

(***************************************************************************)
(* A client terminal of cols x rows cells that applies TEXT_OUT payloads.  *)
(* t = [scr, row, col, pend, pen]: the cells printed since the last clear  *)
(* (a cell that is not in scr is a cleared blank), the cursor, whether a   *)
(* wrap is pending after a character in the last column, and the colours   *)
(* the last SGR selected.                                                  *)
(***************************************************************************)
\* the colours of a terminal that has seen no SGR: white on black, steady
PenDefault == [fg |-> 7, bright |-> FALSE, bg |-> 0, blink |-> FALSE]

BlankTerminal ==
    [scr |-> [p \in {} |-> 0], row |-> 0, col |-> 0, pend |-> FALSE, pen |-> PenDefault]

\* the decimal parameters of a control sequence, bytes i .. n-1 of s
RECURSIVE CsiNumbers(_, _, _, _)
CsiNumbers(s, i, n, acc) ==
    IF i >= n THEN <<acc>>
    ELSE IF s[i] = 59 THEN <<acc>> \o CsiNumbers(s, i + 1, n, 0)
    ELSE IF s[i] >= 48 /\ s[i] <= 57 THEN CsiNumbers(s, i + 1, n, acc * 10 + (s[i] - 48))
    ELSE CsiNumbers(s, i + 1, n, acc)

\* SGR: 0 resets, 30-37 and 90-97 select the foreground, 40-47 the
\* background, 5 blinks
RECURSIVE SgrApply(_, _, _)
SgrApply(pen, ns, i) ==
    IF i > Len(ns) THEN pen
    ELSE LET n == ns[i]
             p == CASE n = 0 -> PenDefault
                    [] n = 5 -> [pen EXCEPT !.blink = TRUE]
                    [] n >= 30 /\ n <= 37 -> [pen EXCEPT !.fg = n - 30, !.bright = FALSE]
                    [] n >= 90 /\ n <= 97 -> [pen EXCEPT !.fg = n - 90, !.bright = TRUE]
                    [] n >= 40 /\ n <= 47 -> [pen EXCEPT !.bg = n - 40]
                    [] OTHER -> pen
         IN  SgrApply(p, ns, i + 1)

\* the screen moved up by one row
ScrollUp(scr) ==
    [p \in {<<q[1] - 1, q[2]>> : q \in {q \in DOMAIN scr : q[1] > 0}} |-> scr[<<p[1] + 1, p[2]>>]]

\* line feed: one row down, scrolling at the bottom row
LineFeed(t, rows) ==
    IF t.row + 1 >= rows THEN [t EXCEPT !.scr = ScrollUp(@)] ELSE [t EXCEPT !.row = @ + 1]

\* the control sequence s[i .. n] (ESC [ ... final byte)
TermControl(t, s, i, n, rows, cols) ==
    LET private == n > i + 2 /\ s[i + 2] = 63
        ns == CsiNumbers(s, i + 2, n, 0)
    IN  CASE s[n] = 109 -> [t EXCEPT !.pen = SgrApply(@, ns, 1)]
          [] s[n] = 74 /\ ns = <<2>> -> [t EXCEPT !.scr = [p \in {} |-> 0]]
          [] s[n] = 72 ->
                LET r == IF Len(ns) >= 1 /\ ns[1] > 0 THEN ns[1] ELSE 1
                    c == IF Len(ns) >= 2 /\ ns[2] > 0 THEN ns[2] ELSE 1
                IN  [t EXCEPT !.row = Min(r, rows) - 1, !.col = Min(c, cols) - 1,
                              !.pend = FALSE]
          [] OTHER -> t

\* the bytes of the UTF-8 sequence that begins with lead byte b
Utf8Len(b) == IF b < 128 THEN 1 ELSE IF b < 224 THEN 2 ELSE 3

\* the code point of the UTF-8 sequence at s[i]
Utf8Decode(s, i) ==
    CASE Utf8Len(s[i]) = 1 -> s[i]
      [] Utf8Len(s[i]) = 2 -> (s[i] - 192) * 64 + (s[i + 1] - 128)
      [] OTHER -> (s[i] - 224) * 4096 + (s[i + 1] - 128) * 64 + (s[i + 2] - 128)

\* a printed character: a pending wrap is taken first; the character goes
\* to the cursor's cell in the pen's colours; the cursor advances, or the
\* wrap becomes pending in the last column
TermPrint(t, u, rows, cols) ==
    LET w == IF t.pend THEN [LineFeed(t, rows) EXCEPT !.col = 0, !.pend = FALSE] ELSE t
        at == <<w.row, w.col>>
        scr == [p \in DOMAIN w.scr \cup {at} |->
                   IF p = at THEN [u |-> u, pen |-> w.pen] ELSE w.scr[p]]
    IN  IF w.col + 1 >= cols
        THEN [w EXCEPT !.scr = scr, !.pend = TRUE]
        ELSE [w EXCEPT !.scr = scr, !.col = @ + 1]

\* the terminal after the element of s that begins at i, and where the next
\* element begins.  NUL is not a graphic character: it is dropped.
TermElement(t, s, i, rows, cols) ==
    CASE s[i] = 27 ->
             LET n == EscEnd(s, i + 2)
             IN  [t |-> TermControl(t, s, i, n, rows, cols), i |-> n + 1]
      [] s[i] = 13 -> [t |-> [t EXCEPT !.col = 0, !.pend = FALSE], i |-> i + 1]
      [] s[i] = 10 -> [t |-> LineFeed(t, rows), i |-> i + 1]
      [] s[i] = 0 -> [t |-> t, i |-> i + 1]
      [] OTHER ->
             [t |-> TermPrint(t, Utf8Decode(s, i), rows, cols), i |-> i + Utf8Len(s[i])]

\* the terminal after s[i ..]
RECURSIVE TermRun(_, _, _, _, _)
TermRun(t, s, i, rows, cols) ==
    IF i > Len(s) THEN t
    ELSE CHOOSE r \in {TermRun(e.t, s, e.i, rows, cols) :
                          e \in {TermElement(t, s, i, rows, cols)}} : TRUE

\* the TEXT_OUT payloads written on a connection, in order
RECURSIVE TextOutBytes(_, _)
TextOutBytes(w, i) ==
    IF i > Len(w) THEN << >>
    ELSE (IF w[i].ch = CH_TEXT_OUT /\ w[i].part = "pay" THEN w[i].bytes ELSE << >>)
             \o TextOutBytes(w, i + 1)

\* what the client of connection c shows.  Every change of dimensions is
\* followed by a clear, so the frames are applied at the present dimensions.
Terminal(c) == TermRun(BlankTerminal, TextOutBytes(wire[c], 1), 1, rows_, cols_)

\* the colours a VGA attribute byte stands for: bit 0 of a colour is blue,
\* bit 1 green, bit 2 red (the terminal's order is red, green, blue); bit 3
\* of the foreground is its intensity, bit 7 blinks
AnsiColour(v) == (v % 2) * 4 + ((v \div 2) % 2) * 2 + ((v \div 4) % 2)

AttrPen(at) ==
    [fg |-> AnsiColour(at % 8), bright |-> (at \div 8) % 2 = 1,
     bg |-> AnsiColour((at \div 16) % 8), blink |-> (at \div 128) % 2 = 1]

\* a space on a black background
InvisibleCell(cell) == cell.character = 32 /\ (cell.attribute \div 16) % 8 = 0

\* terminal t shows cell at (r, c)
ShowsCell(t, r, c, cell) ==
    IF <<r, c>> \in DOMAIN t.scr
    THEN t.scr[<<r, c>>] = [u |-> cp437_to_unicode[cell.character + 1],
                            pen |-> AttrPen(cell.attribute)]
    ELSE InvisibleCell(cell)

\* terminal t shows grid g within rows x cols
ShowsGrid(t, g, rows, cols) ==
    \A p \in Extent(rows, cols) : ShowsCell(t, p[1], p[2], CellAt(g, p[1], p[2]))

(***************************************************************************)
(* SpecVisual: an established text session after its first, full render    *)
(* pass over the screen as the BIOS cleared it.  The guest draws cells and *)
(* changes the width of the screen; ticks run to completion in between.    *)
(***************************************************************************)
\* OnVSync passes its gate while vsync_count_ is below this: three more ticks
MaxVisualTicks == 4
\* changes the guest makes to the display in one run
MaxVisualSteps == 3

\* the cells the guest writes
VisualCells == {TextCell(0, 7), TextCell(65, 7), TextCell(65, 159), TextCell(32, 31),
                TextCell(32, 7)}

\* the cell indexes it writes to: the first three and the last of 2 x 25
VisualOffsets == {0, 1, 2, 49}

\* the values it gives the CRTC offset register: 2 and 4 columns
VisualWidths == {1, 2}

InitVisual ==
    /\ InitEmulator /\ InitLocals
    /\ client_fd_ = 1 /\ handshake_done_ = TRUE /\ mode_notified_ = TRUE
    /\ enabled_ = TRUE /\ force_redraw_ = FALSE
    /\ client_wants_text_ = TRUE /\ client_wants_graphics_ = FALSE
    /\ client_wants_audio_ = FALSE
    /\ vsync_count_ = 1 /\ last_mode_ = "M_TEXT"
    /\ cols_ = 2 /\ rows_ = 25 /\ prev_cols_ = 2 /\ prev_rows_ = 25
    /\ current_ = FirstPassGrid /\ previous_ = FirstPassGrid
    /\ cursor_ = TextCursor(0, 0, TRUE) /\ prev_cursor_ = cursor_
    /\ ansi_attr_ = FirstPass.attr /\ ansi_row_ = FirstPass.row /\ ansi_col_ = FirstPass.col
    /\ text_buffer_ = FirstPass.buf
    /\ input_state_ = "NORMAL" /\ csi_params_ = << >>
    /\ send_mutex_ = "none"
    /\ open_fds = {1} /\ backlog = 0 /\ nconn = 1
    /\ wire = [c \in Conns |->
                 IF c = 1
                 THEN ServedFrame(1, FALSE, HelloPayload)
                      \o ServedFrame(2, TRUE, ModeNotification("M_TEXT", 2, 25))
                      \o FirstPassFrame
                 ELSE << >>]
    /\ inq = [c \in Conns |-> << >>]
    /\ peer_closed = [c \in Conns |-> FALSE]
    /\ csent = [c \in Conns |-> IF c = 1 THEN 1 ELSE 0]
    /\ hello_proc = [c \in Conns |-> c = 1]
    /\ nsend = 3
    /\ tk = [from |-> "M_ERROR", conn |-> 1, w0 |-> 2, changed |-> TRUE]
    /\ lastfull = NoPass
    /\ sched = "turns"

\* the guest program writes one cell of the text plane, character and
\* attribute, at cell index i
GuestWriteCell(i, cell) ==
    /\ Quiet
    /\ gsteps < MaxVisualSteps
    /\ <<mem_readb(vmem, 2 * i), mem_readb(vmem, 2 * i + 1)>> # <<cell.character, cell.attribute>>
    /\ gsteps' = gsteps + 1
    /\ vmem' = [o \in DOMAIN vmem \cup {2 * i, 2 * i + 1} |->
                   IF o = 2 * i THEN cell.character
                   ELSE IF o = 2 * i + 1 THEN cell.attribute ELSE vmem[o]]
    /\ UNCHANGED <<sched, flagVars, objVars, inputVars, vga_mode, crtc, display_start, sockVars>>

\* the guest program sets the CRTC offset register
GuestSetOffset(o) ==
    /\ Quiet
    /\ gsteps < MaxVisualSteps
    /\ o # crtc.offset
    /\ gsteps' = gsteps + 1
    /\ crtc' = [crtc EXCEPT !.offset = o]
    /\ UNCHANGED <<sched, flagVars, objVars, inputVars, vga_mode, display_start, vmem, sockVars>>

VisualGuestStep ==
    \/ \E i \in VisualOffsets, cell \in VisualCells : GuestWriteCell(i, cell)
    \/ \E o \in VisualWidths : GuestSetOffset(o)

\* one step of OnVSync in a text session
VisualVSyncStep ==
    \/ VGate(MaxVisualTicks)
    \/ VText
    \/ VSnap
    \/ VClear
    \/ VRender
    \/ VCopy
    \/ CallStep("vs")

NextVisual == VisualVSyncStep \/ VisualGuestStep

SpecVisual == InitVisual /\ [][NextVisual]_vars

\* a render pass has run and what it emitted has been written in full
PassDelivered == pc["vs"] = "v_copy"

\* no TEXT_OUT payload on connection c holds a NUL byte
NoNulSent(c) == \A i \in 1 .. Len(TextOutBytes(wire[c], 1)) : TextOutBytes(wire[c], 1)[i] # 0

\* C21 (visual consistency): after every render pass whose frame is
\* delivered in full, every cell of the client's terminal within the extent
\* shows the character and attribute of current_ there, or is a cleared
\* blank where current_ holds a space on a black background.
C21_VisualConsistency ==
    PassDelivered => ShowsGrid(Terminal(client_fd_), current_, rows_, cols_)

\* the same for the sessions in which no character 0 has been emitted
C21_ConsistentWithoutNul ==
    (PassDelivered /\ NoNulSent(client_fd_))
        => ShowsGrid(Terminal(client_fd_), current_, rows_, cols_)

\* a differential pass has emitted character 0 for cell (0, 0), where the
\* terminal goes on showing the 'A' it was sent one pass before
C21_StaleCell ==
    /\ PassDelivered /\ ~full
    /\ CellAt(previous_, 0, 0) = TextCell(65, 7)
    /\ CellAt(current_, 0, 0) = TextCell(0, 7)
    /\ <<0, 0>> \in DOMAIN Terminal(client_fd_).scr
    /\ Terminal(client_fd_).scr[<<0, 0>>].u = 65
(***************************************************************************)
(* SpecPieces: connection 1 after the handshake; the client has sent two   *)
(* frames, whose bytes become readable piece by piece.  Here inq[1] holds  *)
(* the bytes sent and not yet read, and csent[1] counts how many of them   *)
(* have arrived at the socket.                                             *)
(***************************************************************************)
\* the most bytes that arrive at once
MaxPiece == 7

\* what the client sends: "abcd" then "e"; cursor-up then "e"; a keyboard
\* payload whose bytes read as a frame header, then a REFRESH
PieceStreams ==
    {ClientFrame(CH_KEYBOARD_IN, <<97, 98, 99, 100>>) \o ClientFrame(CH_KEYBOARD_IN, <<101>>),
     ClientFrame(CH_KEYBOARD_IN, <<27, 91, 65>>) \o ClientFrame(CH_KEYBOARD_IN, <<101>>),
     ClientFrame(CH_KEYBOARD_IN, <<CH_KEYBOARD_IN, 0, 0, 1, 66>>) \o ClientRefresh}

InitPieces ==
    /\ InitFields /\ InitEmulator /\ InitLocals
    /\ client_fd_ = 1 /\ handshake_done_ = TRUE /\ mode_notified_ = TRUE
    /\ open_fds = {1} /\ backlog = 0 /\ nconn = 1
    /\ wire = [c \in Conns |->
                 IF c = 1
                 THEN ServedFrame(1, FALSE, HelloPayload)
                      \o ServedFrame(2, TRUE, ModeNotification(vga_mode, cols_, rows_))
                 ELSE << >>]
    /\ \E stream \in PieceStreams :
          inq = [c \in Conns |-> IF c = 1 THEN stream ELSE << >>]
    /\ csent = [c \in Conns |-> 0]
    /\ peer_closed = [c \in Conns |-> FALSE]
    /\ hello_proc = [c \in Conns |-> c = 1]
    /\ nsend = 2
    /\ tk = NoTick
    /\ lastfull = NoPass
    /\ sched = "free"

\* the next n bytes the client sent arrive at the socket
PieceArrives(n) ==
    /\ csent[1] + n <= Len(inq[1])
    /\ csent' = [csent EXCEPT ![1] = @ + n]
    /\ UNCHANGED <<sched, flagVars, objVars, inputVars, guestVars, open_fds, backlog, nconn,
                   inq, peer_closed>>

\* poll() finds the socket readable; ReadMessage() reads from the bytes that
\* have arrived, read() returning what is there and then EAGAIN; when it
\* fails, recv(MSG_PEEK) finds the connection open
PiecePoll ==
    /\ At("rd", "r_top")
    /\ client_fd_ >= 0
    /\ csent[client_fd_] > 0
    /\ LET here == Take(inq[client_fd_], csent[client_fd_])
           m == ReadMessage(here)
       IN  /\ inq' = [inq EXCEPT ![client_fd_] = m.rest \o Drop(@, csent[client_fd_])]
           /\ csent' = [csent EXCEPT ![client_fd_] = Len(m.rest)]
           /\ IF m.ok
              THEN rmsg' = [channel |-> m.channel, payload |-> m.payload]
                   /\ Goto("rd", "r_dispatch")
              ELSE UNCHANGED rmsg /\ Goto("rd", "r_top")
    /\ UNCHANGED <<sched, flagVars, capVars, tickVars, dimVars, gridVars, ansiVars, text_buffer_,
                   inputVars, send_mutex_, ret, mret, sarg, full, guestVars, open_fds,
                   backlog, nconn, peer_closed, wire, histVars>>

NextPieces ==
    \/ \E n \in 1 .. MaxPiece : PieceArrives(n)
    \/ PiecePoll
    \/ RDispatch
    \/ RInvalidate
    \/ RInvalidate2

SpecPieces == InitPieces /\ [][NextPieces]_vars

\* the bytes of the frame that begins s: header and payload
HeadFrame(s) == Take(s, 4 + HeaderLen(Take(s, 4)))

\* a call of ReadMessage returns
ReadReturns == pc["rd"] = "r_top" /\ pc'["rd"] \in {"r_top", "r_dispatch"} /\ inq' # inq

\* C22 (frame reassembly): a call of ReadMessage on bytes that begin at a
\* frame boundary either returns the complete frame at the head, channel and
\* payload of exactly L bytes, or consumes nothing, so that what is left
\* unread again begins at a frame boundary.
C22_FrameReassembly ==
    [][(ReadReturns /\ WholeFrames(inq[1]))
          => /\ pc'["rd"] = "r_dispatch"
             /\ inq[1] = HeadFrame(inq[1]) \o inq'[1]
             /\ ClientFrame(rmsg'.channel, rmsg'.payload) = HeadFrame(inq[1])]_vars

\* C22, the state it rules out: the bytes left unread do not begin at a
\* frame boundary
C22_AtBoundary == WholeFrames(inq[1])

\* a REFRESH frame is still unread while the worker dispatches a keyboard
\* message of one byte, 'B', that the client never sent: it was cut out of
\* the payload of the first frame
C22_MidFrame ==
    /\ pc["rd"] = "r_dispatch"
    /\ rmsg = [channel |-> CH_KEYBOARD_IN, payload |-> <<66>>]
    /\ inq[1] = ClientRefresh
(***************************************************************************)
(* SpecCursor: the first text tick of an established session, past its     *)
(* gate and mode test, from the dimension computation of                   *)
(* SnapshotTextBuffer to the end of the render pass, for cursor registers  *)
(* drawn from their ranges.                                                *)
(***************************************************************************)
\* vga.crtc.offset: 2 and 80 columns
CursorOffsets == {1, 40}

\* the 16-bit cursor location: the first and last cell of 2 x 25 and of
\* 80 x 25, the cell after each, where programs park a cursor they hide,
\* and the largest value
CursorLocations == {0, 1, 49, 50, 1999, 2000, 65535}

\* vga.crtc.cursor_start: bit 5 hides the cursor
CursorStarts == {0, 32}

InitCursor ==
    /\ InitFields
    /\ vga_mode = "M_TEXT"
    /\ \E o \in CursorOffsets, loc \in CursorLocations, s \in CursorStarts :
          crtc = [offset |-> o, maximum_scan_line |-> 15, vertical_display_end |-> 399,
                  cursor_location |-> loc, cursor_start |-> s]
    /\ display_start = 0
    /\ vmem = [o \in {} |-> 0]
    /\ keybuf = << >>
    /\ gsteps = 0
    /\ client_fd_ = 1 /\ handshake_done_ = TRUE /\ mode_notified_ = TRUE
    /\ pc = [t \in Threads |-> IF t = "vs" THEN "v_text" ELSE "r_top"]
    /\ ret = [t \in Threads |-> "none"]
    /\ mret = [t \in Threads |-> "none"]
    /\ sarg = [t \in Threads |-> NoArg]
    /\ full = FALSE
    /\ rmsg = [channel |-> CH_CONTROL, payload |-> Drop(ClientScript[1], 4)]
    /\ open_fds = {1} /\ backlog = 0 /\ nconn = 1
    /\ wire = [c \in Conns |->
                 IF c = 1
                 THEN ServedFrame(1, FALSE, HelloPayload)
                      \o ServedFrame(2, TRUE, ModeNotification(vga_mode, cols_, rows_))
                 ELSE << >>]
    /\ inq = [c \in Conns |-> << >>]
    /\ peer_closed = [c \in Conns |-> FALSE]
    /\ csent = [c \in Conns |-> IF c = 1 THEN 1 ELSE 0]
    /\ hello_proc = [c \in Conns |-> c = 1]
    /\ nsend = 2
    /\ tk = [from |-> "M_ERROR", conn |-> 1, w0 |-> 4, changed |-> TRUE]
    /\ lastfull = NoPass
    /\ sched = "turns"

NextCursor == VText \/ VSnap \/ VClear \/ VRender \/ VCopy \/ CallStep("vs")

SpecCursor == InitCursor /\ [][NextCursor]_vars

\* SnapshotCursor has run in this tick
CursorSnapped == pc["vs"] \in {"v_clear", "v_render", "v_copy"}

\* C23 (cursor bounds): after every SnapshotCursor, whatever the cursor
\* location register holds, 0 <= cursor_.row < rows_ and
\* 0 <= cursor_.col < cols_.
C23_CursorBounds ==
    CursorSnapped => /\ 0 <= cursor_.row /\ cursor_.row < rows_
                     /\ 0 <= cursor_.col /\ cursor_.col < cols_

\* the part of C23 that holds: the column is inside the extent
C23_ColumnBounds == CursorSnapped => (0 <= cursor_.col /\ cursor_.col < cols_)

\* the pass of an 80 x 25 screen has ended its output with a cursor move to
\* row 26, column 1: the cell after the last one, where the guest parked
\* the cursor
C23_MoveOutside ==
    /\ pc["vs"] = "v_copy"
    /\ cols_ = 80 /\ rows_ = 25
    /\ crtc.cursor_location = 2000
    /\ EndsWith(text_buffer_, MoveBytes(25, 0))
(***************************************************************************)
(* The render state right after a cell's character has been emitted        *)
(***************************************************************************)
\* the start of a row of the full redraw: if (row > 0) { reset; CR LF }
RowBreak(e, row) ==
    IF row > 0
    THEN LET r == IF e.attr # ATTR_DEFAULT THEN EmitSetAttribute(e, ATTR_DEFAULT) ELSE e
         IN  [r EXCEPT !.buf = @ \o <<13, 10>>]
    ELSE e

\* the cells a full redraw emits a character for
FullEmits(cur, rows, cols) ==
    {p \in Extent(rows, cols) : p[2] <= LastCol(cur, p[1], cols - 1)}

\* the render state of a full redraw after EmitCharacter for cell (r, c):
\* the rows before r, the start of row r, its columns up to c
AfterFullCell(e, cur, r, c, cols) ==
    LET e1 == EmitSetAttribute(EmitClearScreen(e), ATTR_DEFAULT)
        e2 == FullRows(e1, cur, 0, r, cols)
    IN  FullRowCells(RowBreak(e2, r), cur, r, 0, c, cols)

\* the cells a differential update emits a character for
DiffEmits(cur, prev, rows, cols) ==
    {p \in Extent(rows, cols) : CellChanged(CellAt(cur, p[1], p[2]), CellAt(prev, p[1], p[2]))}

\* cur with the cells of row r after column c as in prev: the inner loop
\* over it stops emitting after (r, c)
RowUpTo(cur, prev, r, c) ==
    [p \in DOMAIN cur \cup DOMAIN prev |->
        IF p[1] = r /\ p[2] > c THEN CellAt(prev, p[1], p[2]) ELSE CellAt(cur, p[1], p[2])]

\* the render state of a differential update after EmitCharacter for the
\* changed cell (r, c)
AfterDiffCell(e, cur, prev, r, c, cols) ==
    LET d == DiffRows([e |-> e, wrow |-> -1, wcol |-> -1], cur, prev, 0, r, cols)
    IN  DiffRowCells(d, RowUpTo(cur, prev, r, c), prev, r, 0, cols).e

\* the render state of the pass that is about to run, after EmitCharacter
\* for cell p
AfterCell(p) ==
    LET e == Emitter(<< >>, ansi_attr_, ansi_row_, ansi_col_)
    IN  IF full THEN AfterFullCell(e, current_, p[1], p[2], cols_)
                ELSE AfterDiffCell(e, current_, previous_, p[1], p[2], cols_)

\* the cells the pass that is about to run emits a character for
PassEmits ==
    IF full THEN FullEmits(current_, rows_, cols_)
            ELSE DiffEmits(current_, previous_, rows_, cols_)

\* the tracked position is the cell after (r, c)
TracksPosition(e, r, c, cols) ==
    <<e.row, e.col>> = IF c + 1 = cols THEN <<r + 1, 0>> ELSE <<r, c + 1>>

\* GenerateTextOutput is about to emit the cells
PassRenders == pc["vs"] = "v_render"

\* C24 (render-state tracking): after every emission that places a
\* character at cell (r, c), in full-redraw and differential passes,
\* ansi_attr_ is the cell's attribute and (ansi_row_, ansi_col_) is
\* (r, c + 1), or (r + 1, 0) when c + 1 = cols_.
C24_RenderTracking ==
    PassRenders =>
        \A p \in PassEmits :
            /\ AfterCell(p).attr = CellAt(current_, p[1], p[2]).attribute
            /\ TracksPosition(AfterCell(p), p[1], p[2], cols_)

\* the parts of C24 that hold: the attribute in both kinds of pass, the
\* position in differential passes and in row 0 of a full redraw
C24_TrackingKept ==
    PassRenders =>
        \A p \in PassEmits :
            /\ AfterCell(p).attr = CellAt(current_, p[1], p[2]).attribute
            /\ (~full \/ p[1] = 0) => TracksPosition(AfterCell(p), p[1], p[2], cols_)

\* a full redraw is about to emit a character at (0, 0), none at (0, 1) and
\* one at (1, 0), after which it tracks (1, 0) and not (1, 1): the line
\* break is not tracked, and the character only wraps the count of row 0
C24_LostLineBreak ==
    /\ PassRenders /\ full
    /\ <<0, 0>> \in PassEmits /\ <<0, 1>> \notin PassEmits /\ <<1, 0>> \in PassEmits
    /\ AfterCell(<<1, 0>>).row = 1 /\ AfterCell(<<1, 0>>).col = 0
(***************************************************************************)
(* SpecPeriodic: an established text session after its first, full render  *)
(* pass.  Mode and dimensions stay and the client sends nothing; the guest *)
(* redraws cell (0, 0) before every tick, so that every pass has something *)
(* to send and the passes can be counted on the wire.                      *)
(***************************************************************************)
\* OnVSync passes its gate while vsync_count_ is below this: two refresh
\* periods and a few ticks more
MaxPeriodicTicks == 245

\* the last pass has seen what cell (0, 0) of the text plane holds
ScreenSeen == mem_readb(vmem, 0) = CellAt(current_, 0, 0).character

\* the guest program writes 'A' or a space over cell (0, 0), whichever it
\* does not hold
GuestRedraw ==
    /\ Quiet
    /\ ScreenSeen
    /\ vsync_count_ < MaxPeriodicTicks
    /\ gsteps' = gsteps + 1
    /\ vmem' = [o \in DOMAIN vmem \cup {0} |->
                   IF o = 0 THEN (IF mem_readb(vmem, 0) = 65 THEN 32 ELSE 65) ELSE vmem[o]]
    /\ UNCHANGED <<sched, flagVars, objVars, inputVars, vga_mode, crtc, display_start, sockVars>>

\* the next tick comes when the guest has redrawn
PeriodicGate == ~ScreenSeen /\ VGate(MaxPeriodicTicks)

\* one step of OnVSync in a session whose mode and dimensions stay
PeriodicVSyncStep ==
    \/ PeriodicGate
    \/ VText
    \/ VSnap
    \/ VClear
    \/ VRender
    \/ VCopy
    \/ SendCheck("vs")
    \/ SendLock("vs")
    \/ SendHeader("vs", FullWrite(4))
    \/ SendPayload("vs", FullWrite(sarg["vs"].len))

NextPeriodic == PeriodicVSyncStep \/ GuestRedraw

SpecPeriodic == InitVisual /\ [][NextPeriodic]_vars

\* the TEXT_OUT payloads written on connection c, one per render pass that
\* had something to send
TextOutFrames(c) == SelectSeq(wire[c], LAMBDA k : k.ch = CH_TEXT_OUT /\ k.part = "pay")

\* the payload of a full redraw
IsFullFrame(k) == BeginsWith(k.bytes, FullRedrawOpening)

\* C25 (periodic resync): every tick of the session runs a render pass and
\* sends its frame, and among the frames of any 120 consecutive passes at
\* least one is a full redraw, although nothing but the periodic refresh
\* sets force_redraw_.
C25_PeriodicResync ==
    LET f == TextOutFrames(1)
        n == Len(f)
    IN  /\ pc["vs"] = "v_idle" => n = vsync_count_
        /\ n >= REFRESH_PERIOD => \E j \in (n - REFRESH_PERIOD + 1) .. n : IsFullFrame(f[j])

\* 240 passes have run; of the last 120 only the last is a full redraw, and
\* ticks 120 and 240 are the only full redraws since the first pass
C25_Witness ==
    LET f == TextOutFrames(1)
    IN  /\ pc["vs"] = "v_idle" /\ vsync_count_ = 2 * REFRESH_PERIOD
        /\ Len(f) = 2 * REFRESH_PERIOD
        /\ {j \in 2 .. Len(f) : IsFullFrame(f[j])} = {REFRESH_PERIOD, 2 * REFRESH_PERIOD}
(***************************************************************************)
(* SpecFirstFrame: the first client has been shown the blank screen by the *)
(* first, full pass and has said GOODBYE; the guest has drawn 'A' at       *)
(* (0, 0) since; a second client waits in the listener's queue and sends   *)
(* its HELLO once accepted.  The reader worker and the vsync context       *)
(* interleave step by step.                                                *)
(***************************************************************************)
\* OnVSync passes its gate while vsync_count_ is below this: two more ticks
MaxFirstFrameTicks == 3

InitFirstFrame ==
    /\ vga_mode = "M_TEXT"
    /\ crtc = [offset |-> 1, maximum_scan_line |-> 15, vertical_display_end |-> 399,
               cursor_location |-> 0, cursor_start |-> 0]
    /\ display_start = 0
    /\ vmem = [o \in {0, 1} |-> IF o = 0 THEN 65 ELSE ATTR_DEFAULT]
    /\ keybuf = << >>
    /\ gsteps = 1
    /\ InitLocals
    /\ client_fd_ = 1 /\ handshake_done_ = TRUE /\ mode_notified_ = TRUE
    /\ enabled_ = TRUE /\ force_redraw_ = FALSE
    /\ client_wants_text_ = TRUE /\ client_wants_graphics_ = FALSE
    /\ client_wants_audio_ = FALSE
    /\ vsync_count_ = 1 /\ last_mode_ = "M_TEXT"
    /\ cols_ = 2 /\ rows_ = 25 /\ prev_cols_ = 2 /\ prev_rows_ = 25
    /\ current_ = FirstPassGrid /\ previous_ = FirstPassGrid
    /\ cursor_ = TextCursor(0, 0, TRUE) /\ prev_cursor_ = cursor_
    /\ ansi_attr_ = FirstPass.attr /\ ansi_row_ = FirstPass.row /\ ansi_col_ = FirstPass.col
    /\ text_buffer_ = FirstPass.buf
    /\ input_state_ = "NORMAL" /\ csi_params_ = << >>
    /\ send_mutex_ = "none"
    /\ open_fds = {1} /\ backlog = 1 /\ nconn = 1
    /\ wire = [c \in Conns |->
                 IF c = 1
                 THEN ServedFrame(1, FALSE, HelloPayload)
                      \o ServedFrame(2, TRUE, ModeNotification("M_TEXT", 2, 25))
                      \o FirstPassFrame
                 ELSE << >>]
    /\ inq = [c \in Conns |-> IF c = 1 THEN ClientGoodbye ELSE << >>]
    /\ peer_closed = [c \in Conns |-> FALSE]
    /\ csent = [c \in Conns |-> IF c = 1 THEN 2 ELSE 0]
    /\ hello_proc = [c \in Conns |-> c = 1]
    /\ nsend = 3
    /\ tk = [from |-> "M_ERROR", conn |-> 1, w0 |-> 2, changed |-> TRUE]
    /\ lastfull = NoPass
    /\ sched = "free"

\* the second client sends its HELLO
SecondHello ==
    /\ csent[2] = 0
    /\ ClientSend(2, ClientHello(<<CAP_TEXT_OUTPUT>>))

\* one step of OnVSync in a session whose mode stays
FirstFrameVSyncStep ==
    \/ VGate(MaxFirstFrameTicks)
    \/ VText
    \/ VSnap
    \/ VClear
    \/ VRender
    \/ VCopy
    \/ CallStep("vs")

NextFirstFrame == FirstFrameVSyncStep \/ ReaderStep \/ SecondHello

SpecFirstFrame == InitFirstFrame /\ [][NextFirstFrame]_vars

\* C26 (first frame is a full redraw): on every connection, the first
\* TEXT_OUT frame written to it opens with hide-cursor, clear-screen, home,
\* however accept and Invalidate() interleave with a render pass.
C26_FirstFrameFull ==
    \A c \in Conns :
        TextOutFrames(c) # << >> => IsFullFrame(TextOutFrames(c)[1])

\* the second client has been sent one whole TEXT_OUT frame, header and
\* payload: the differential update that draws 'A' over what the first
\* client was shown
C26_DifferentialFirst ==
    LET w == SelectSeq(wire[2], LAMBDA k : k.ch = CH_TEXT_OUT)
    IN  /\ Len(w) = 2
        /\ w[1].part = "hdr" /\ w[1].bytes = FrameHeader(CH_TEXT_OUT, 7)
        /\ w[2].part = "pay" /\ w[2].bytes = MoveBytes(0, 0) \o <<65>>

\* the second client has completed its handshake, no pass was in flight
\* when it was accepted, and its first TEXT_OUT frame is a full redraw
C26_FullFirst ==
    /\ hello_proc[2]
    /\ TextOutFrames(2) # << >>
    /\ IsFullFrame(TextOutFrames(2)[1])
    /\ TextOutFrames(2)[1].hs
(***************************************************************************)
(* SpecIsolation: the reader worker alone.  The first client, after its    *)
(* handshake, has sent one keyboard frame and GOODBYE; a second client     *)
(* waits in the listener's queue and has sent its HELLO and one keyboard   *)
(* frame, which become readable once it is accepted.                       *)
(***************************************************************************)
\* the keyboard payload of the first client: a whole key, or the beginning
\* of an escape sequence
LeftBehind == {<<97>>, <<27>>, <<27, 91>>, <<27, 91, 49>>, <<27, 79>>}

\* the keyboard payload of the second client: 'A', 'P', '~', ESC [ B
FirstBytes == {<<65>>, <<80>>, <<126>>, <<27, 91, 66>>}

InitIsolation ==
    /\ InitFields /\ InitEmulator /\ InitLocals
    /\ client_fd_ = 1 /\ handshake_done_ = TRUE /\ mode_notified_ = TRUE
    /\ open_fds = {1} /\ backlog = 1 /\ nconn = 1
    /\ wire = [c \in Conns |->
                 IF c = 1
                 THEN ServedFrame(1, FALSE, HelloPayload)
                      \o ServedFrame(2, TRUE, ModeNotification(vga_mode, cols_, rows_))
                 ELSE << >>]
    /\ \E a \in LeftBehind, b \in FirstBytes :
          inq = [c \in Conns |->
                   IF c = 1 THEN ClientFrame(CH_KEYBOARD_IN, a) \o ClientGoodbye
                   ELSE ClientHello(<<CAP_TEXT_OUTPUT>>) \o ClientFrame(CH_KEYBOARD_IN, b)]
    /\ csent = [c \in Conns |-> 2]
    /\ peer_closed = [c \in Conns |-> FALSE]
    /\ hello_proc = [c \in Conns |-> c = 1]
    /\ nsend = 2
    /\ tk = NoTick
    /\ lastfull = NoPass
    /\ sched = "free"

NextIsolation == ReaderStep

SpecIsolation == InitIsolation /\ [][NextIsolation]_vars

\* accept() has just returned the second client
NewClientAccepted == pc["rd"] = "r_accepted" /\ client_fd_ = 2

\* the worker has processed the second client's keyboard frame
FirstBytesDecoded ==
    /\ client_fd_ = 2 /\ pc["rd"] = "r_top" /\ inq[2] = << >>
    /\ rmsg.channel = CH_KEYBOARD_IN

\* the keycodes a tokenizer in its initial state injects for a payload
FreshKeys(payload) ==
    HandleKeyboardInput([state |-> "NORMAL", params |-> << >>, keys |-> << >>], payload).keys

\* C27 (tokenizer isolation between clients): when a new client is accepted
\* the tokenizer is in state NORMAL with an empty CSI parameter buffer, and
\* the keys injected for the new client's first keyboard frame are those a
\* tokenizer in its initial state injects for it.
C27_TokenizerIsolation ==
    /\ NewClientAccepted => (input_state_ = "NORMAL" /\ csi_params_ = << >>)
    /\ FirstBytesDecoded => EndsWith(keybuf, FreshKeys(rmsg.payload))

\* the part of C27 that holds: after a first client whose payload was the
\* whole key 'a', the second client's bytes inject what a tokenizer in its
\* initial state injects
C27_IsolatedWhenNormal ==
    (FirstBytesDecoded /\ Len(keybuf) >= 1 /\ keybuf[1] = FreshKeys(<<97>>)[1])
        => EndsWith(keybuf, FreshKeys(rmsg.payload))

\* the first client left ESC [ behind; the second client's 'A' has been
\* injected as the cursor-up key
C27_LeakedEscape ==
    /\ FirstBytesDecoded
    /\ rmsg.payload = <<65>>
    /\ keybuf = FreshKeys(<<27, 91, 65>>)
    /\ keybuf # FreshKeys(<<65>>)
(***************************************************************************)
(* SpecUngated: the reader worker alone, from Listen() on.  One client     *)
(* waits in the listener's queue and has sent two frames, which become     *)
(* readable once it is accepted: a keyboard frame and its HELLO, in either *)
(* order.                                                                  *)
(***************************************************************************)
\* the keyboard payloads: 'A', Enter, cursor-up
UngatedKeys == {<<65>>, <<13>>, <<27, 91, 65>>}

InitUngated ==
    /\ InitObject /\ InitLocals /\ InitEmulator
    /\ open_fds = {} /\ backlog = 1 /\ nconn = 0
    /\ wire = [c \in Conns |-> << >>]
    /\ \E k \in UngatedKeys, first \in BOOLEAN :
          inq = [c \in Conns |->
                   IF c # 1 THEN << >>
                   ELSE IF first
                        THEN ClientFrame(CH_KEYBOARD_IN, k) \o ClientHello(<<CAP_TEXT_OUTPUT>>)
                        ELSE ClientHello(<<CAP_TEXT_OUTPUT>>) \o ClientFrame(CH_KEYBOARD_IN, k)]
    /\ csent = [c \in Conns |-> IF c = 1 THEN 2 ELSE 0]
    /\ peer_closed = [c \in Conns |-> FALSE]
    /\ hello_proc = [c \in Conns |-> FALSE]
    /\ nsend = 0
    /\ tk = NoTick
    /\ lastfull = NoPass
    /\ sched = "free"

\* one step of InputThreadFunc on a connection that stays open
UngatedReaderStep ==
    \/ RAccept
    \/ RAccepted
    \/ RInvalidate
    \/ RInvalidate2
    \/ RPoll
    \/ RDispatch
    \/ RHello
    \/ RHandshakeDone
    \/ CallStep("rd")

NextUngated == UngatedReaderStep

SpecUngated == InitUngated /\ [][NextUngated]_vars

\* inject_key is called: a keycode is handed to BIOS_AddKeyToBuffer
KeyInjected == keybuf' # keybuf

\* C28 (input is gated by the handshake): inject_key is never called for
\* the bytes of a KEYBOARD_IN frame while handshake_done_ is false.
C28_HandshakeGate == [][KeyInjected => handshake_done_]_vars

\* a key has reached the guest on a connection whose client HELLO has not
\* been processed
C28_KeyBeforeHello ==
    /\ client_fd_ = 1 /\ ~handshake_done_ /\ ~hello_proc[1]
    /\ keybuf = FreshKeys(<<65>>)
    /\ Len(keybuf) = 1

\* after the handshake the keys are injected all the same
C28_KeyAfterHello ==
    /\ client_fd_ = 1 /\ handshake_done_ /\ hello_proc[1]
    /\ rmsg = [channel |-> CH_KEYBOARD_IN, payload |-> <<65>>]
    /\ keybuf = FreshKeys(<<65>>)
(***************************************************************************)
(* The client descriptor during SendMessage                                *)
(***************************************************************************)
\* executor t is in SendMessage, past its test of client_fd_ and before the
\* end of its writes
InSend(t) == pc[t] \in {"s_lock", "s_hdr", "s_pay"}

\* the connections on which a write of frame f has landed
FrameConns(f) == {c \in Conns : \E i \in 1 .. Len(wire[c]) : wire[c][i].fid = f}

\* C29 (no write after close): while the vsync context is in SendMessage
\* between its test of client_fd_ and the end of the frame's writes, the
\* reader worker neither closes nor replaces the client descriptor.
C29_NoWriteAfterClose ==
    [][InSend("vs") => /\ client_fd_' = client_fd_
                       /\ (client_fd_ \in open_fds) = (client_fd_ \in open_fds')]_vars

\* C29, the state it rules out: the writes of one frame have landed on more
\* than one connection
C29_OneDescriptor == \A f \in 1 .. nsend : Cardinality(FrameConns(f)) <= 1

\* the header of a TEXT_OUT frame went to the first client, and its payload
\* to the second
C29_SplitFrame ==
    \E i \in 1 .. Len(wire[1]), j \in 1 .. Len(wire[2]) :
        /\ wire[1][i].fid = wire[2][j].fid
        /\ wire[1][i].ch = CH_TEXT_OUT /\ wire[1][i].part = "hdr"
        /\ wire[2][j].part = "pay"
====
